---- MODULE Spec2Model ----
(***************************************************************************)
(* Order / position lifecycle of the 0DTE SPX trading assistant.           *)
(*                                                                         *)
(* The state is the in-memory store of OrderManager (src/execution/        *)
(* order_manager.py): the orders and the positions, keyed by generated     *)
(* ids, together with the broker calls that are awaited by submit_order,   *)
(* and the PositionTracker (src/execution/position_tracker.py) with the    *)
(* asyncio tasks of its monitor loop.                                      *)
(* Ids are uuid4 prefixes in the code; here the n-th created order (or     *)
(* position) has id n, so a store is a sequence and an id is an index.     *)
(* Wall-clock fields (created_at, updated_at, submitted_at, opened_at,     *)
(* closed_at) are not modelled.  Prices are exact rationals [num, den];    *)
(* den = 0 stands for Python's None, as does the id 0.                     *)
(***************************************************************************)
EXTENDS Integers, Sequences, FiniteSets, TLC

VARIABLES
    orders,       \* OrderManager._orders    : order_id -> Order
    positions,    \* OrderManager._positions : position_id -> Position
    executor,     \* OrderManager.executor is configured (not None)
    inflight,     \* order_id -> number of submit_order calls suspended at the broker await
    last,         \* the call that completed (or suspended) last, and what it returned
    running,            \* PositionTracker._running
    auto_exit_enabled,  \* PositionTracker.auto_exit_enabled
    monitor_task,       \* PositionTracker._monitor_task: a task id, 0 for None
    tasks,              \* task id -> the _monitor_loop task: where it is suspended, its locals
    daily,        \* PositionTracker._daily_pnl, _daily_trades, _daily_wins, and the
                  \* positions recorded since the last reset
    clock,        \* the last reading of the session clock by utils/time_utils.py
    risk          \* the last assessment made by analysis/risk.py RiskCalculator

trackerVars == <<running, auto_exit_enabled, monitor_task, tasks>>

readingVars == <<daily, clock, risk>>

vars == <<orders, positions, executor, inflight, last, running, auto_exit_enabled,
          monitor_task, tasks, daily, clock, risk>>

---------------------------------------------------------------------------
(* Bounds of the model *)

MaxOrders == 2       \* orders the store may hold
MaxQty == 2          \* largest suggestion quantity
MaxFillQty == 1      \* largest quantity of one fill
MaxFills == 2        \* fills recorded in the whole store
MaxPrice == 1        \* prices are 1..MaxPrice
MaxInflight == 1     \* concurrently awaited broker calls
MaxExits == 2        \* exit orders the store may hold beyond MaxOrders when the monitor runs
MaxTasks == 2
MaxRecorded == 3     \* positions recorded between two resets of the daily statistics
ClockSlack == 2      \* seconds read on either side of a whole minute
MaxFillPrice == 2    \* fill prices of the specification of the fill aggregates
MaxGateOrders == 3   \* orders and fills of the specification of the max-positions gate
MaxGateFills == 3
MaxSubmitCalls == 2
QuickAnswer == 1
StalledAnswer == 900  \* submit_order calls suspended at the broker at once, in SpecSubmit
        \* _monitor_loop tasks that exist at a time (cancelled ones included)

StoreCap == MaxOrders + MaxExits

(* Program constants *)

max_positions == 2   \* Settings.max_positions default

\* Session timing of Settings, in minutes after midnight (US Eastern)
market_open == 570          \* "09:30"
prime_time_end == 660       \* "11:00"
lunch_end == 810            \* "13:30"
danger_zone_start == 930    \* "15:30"
exit_deadline == 945        \* "15:45"
market_close == 960         \* "16:00"
SecondsPerMinute == 60      \* delta.total_seconds() / 60
PollSeconds == 30           \* asyncio.sleep(30) of _monitor_loop
ContractMultiplier == 100   \* the options multiplier of realized_pnl

---------------------------------------------------------------------------
(* Enumerations: OrderStatus, OrderSide, OrderType, PositionStatus *)

PENDING_APPROVAL == "pending_approval"
APPROVED == "approved"
SUBMITTED == "submitted"
PARTIAL_FILL == "partial_fill"
FILLED == "filled"
CANCELLED == "cancelled"
REJECTED == "rejected"
EXPIRED == "expired"

OrderStatus ==
    {PENDING_APPROVAL, APPROVED, SUBMITTED, PARTIAL_FILL, FILLED, CANCELLED, REJECTED, EXPIRED}

BUY == "buy"
SELL == "sell"
LIMIT == "limit"
MARKET == "market"

OPEN == "open"
CLOSING == "closing"
CLOSED == "closed"

PRE_MARKET == "pre_market"
PRIME_TIME == "prime_time"
LUNCH_DOLDRUMS == "lunch_doldrums"
MID_SESSION == "mid_session"
DANGER_ZONE == "danger_zone"
AFTER_HOURS == "after_hours"

RSI_OVERSOLD_LONG == "rsi_oversold_long"
RSI_OVERBOUGHT_SHORT == "rsi_overbought_short"
V_DIP_LONG == "v_dip_long"
PIVOT_SUPPORT == "pivot_support"

HIGH == "high"
MEDIUM == "medium"
LOW == "low"

None == "None"

---------------------------------------------------------------------------
(* Rationals: Python floats are modelled exactly *)

RECURSIVE Gcd(_, _)
Gcd(a, b) == IF b = 0 THEN a ELSE Gcd(b, a % b)

NoPrice == [num |-> 0, den |-> 0]

Price(p) == [num |-> p, den |-> 1]

Zero == [num |-> 0, den |-> 1]

\* total_cost / total_qty, in lowest terms (den > 0)
Div(n, d) == LET g == Gcd(n, d) IN [num |-> n \div g, den |-> d \div g]

\* n / d of any sign of n, in lowest terms (d > 0)
Ratio(n, d) ==
    LET g == Gcd(IF n < 0 THEN -n ELSE n, d) IN [num |-> n \div g, den |-> d \div g]

Add(a, b) == Ratio(a.num * b.den + b.num * a.den, a.den * b.den)

Sub(a, b) == Ratio(a.num * b.den - b.num * a.den, a.den * b.den)

Times(a, k) == Ratio(a.num * k, a.den)

\* a <= b and |a| of rationals
Leq(a, b) == a.num * b.den <= b.num * a.den

Abs(a) == [num |-> IF a.num < 0 THEN -a.num ELSE a.num, den |-> a.den]

\* int(a / b) of rationals, b > 0: the quotient truncated toward zero
Truncate(a, b) ==
    LET n == a.num * b.den
        d == a.den * b.num
    IN  IF n >= 0 THEN n \div d ELSE -((-n) \div d)

Max(a, b) == IF a >= b THEN a ELSE b

---------------------------------------------------------------------------
(* Inputs *)

Prices == 1..MaxPrice
Reasons == {"User rejected"}                \* reject_order's default reason
BrokerIds == {"B1"}                        \* ids the broker assigns
BrokerOutcomes == BrokerIds \cup {None, "raise"}
BrokerError == "broker error"              \* str(e) of the raised exception

\* Clock readings (seconds after midnight): 15:00, 15:35, 15:42, 16:05
Instants == {m * SecondsPerMinute : m \in {900, 935, 942, 965}}

---------------------------------------------------------------------------
(* Order and Fill *)

RECURSIVE SumCost(_)
SumCost(fills) ==
    IF fills = <<>> THEN 0
    ELSE Head(fills).price * Head(fills).quantity + SumCost(Tail(fills))

RECURSIVE SumQty(_)
SumQty(fills) ==
    IF fills = <<>> THEN 0 ELSE Head(fills).quantity + SumQty(Tail(fills))

Fill(qty, price) == [quantity |-> qty, price |-> price]

is_filled(order) == order.status = FILLED

\* is_active that takes a partially filled order for finished
is_active_NoPartial(order) == order.status \in {PENDING_APPROVAL, APPROVED, SUBMITTED}

is_active(order) == order.status \in {PENDING_APPROVAL, APPROVED, SUBMITTED, PARTIAL_FILL}

\* add_fill with the full-fill test written > instead of >=
add_fill_StrictFull(order, fill) ==
    LET fills == Append(order.fills, fill)
        filled == order.filled_quantity + fill.quantity
        total_cost == SumCost(fills)
        total_qty == SumQty(fills)
    IN [order EXCEPT
          !.fills = fills,
          !.filled_quantity = filled,
          !.avg_fill_price = IF total_qty > 0 THEN Div(total_cost, total_qty) ELSE NoPrice,
          !.status = IF filled > order.quantity THEN FILLED
                     ELSE IF filled > 0 THEN PARTIAL_FILL
                     ELSE order.status]

\* add_fill that takes the price of the last fill for the average
add_fill_LastPrice(order, fill) ==
    LET fills == Append(order.fills, fill)
        filled == order.filled_quantity + fill.quantity
    IN [order EXCEPT
          !.fills = fills,
          !.filled_quantity = filled,
          !.avg_fill_price = Price(fill.price),
          !.status = IF filled >= order.quantity THEN FILLED
                     ELSE IF filled > 0 THEN PARTIAL_FILL
                     ELSE order.status]

\* add_fill that takes the filled contracts off the order's quantity
add_fill_ReducesQuantity(order, fill) ==
    LET fills == Append(order.fills, fill)
        filled == order.filled_quantity + fill.quantity
        total_cost == SumCost(fills)
        total_qty == SumQty(fills)
    IN [order EXCEPT
          !.fills = fills,
          !.filled_quantity = filled,
          !.quantity = order.quantity - fill.quantity,
          !.avg_fill_price = IF total_qty > 0 THEN Div(total_cost, total_qty) ELSE NoPrice,
          !.status = IF filled >= order.quantity THEN FILLED
                     ELSE IF filled > 0 THEN PARTIAL_FILL
                     ELSE order.status]

\* Order.add_fill: the order after the fill is appended
add_fill(order, fill) ==
    LET fills == Append(order.fills, fill)
        filled == order.filled_quantity + fill.quantity
        total_cost == SumCost(fills)
        total_qty == SumQty(fills)
    IN [order EXCEPT
          !.fills = fills,
          !.filled_quantity = filled,
          !.avg_fill_price = IF total_qty > 0 THEN Div(total_cost, total_qty) ELSE NoPrice,
          !.status = IF filled >= order.quantity THEN FILLED
                     ELSE IF filled > 0 THEN PARTIAL_FILL
                     ELSE order.status]

\* The option code of suggestion.contracts[0] of the n-th order of the store:
\* suggestions name the two contracts in turn
suggested_code(n) == IF n % 2 = 1 THEN "SPY-CALL" ELSE "SPY-PUT"

\* Order.from_suggestion: side BUY, type LIMIT, status PENDING_APPROVAL
from_suggestion(option_code, qty) ==
    [option_code |-> option_code,
     side |-> BUY, order_type |-> LIMIT, quantity |-> qty,
     status |-> PENDING_APPROVAL, status_reason |-> None,
     filled_quantity |-> 0, avg_fill_price |-> NoPrice, fills |-> <<>>,
     broker_order_id |-> None]

---------------------------------------------------------------------------
(* Position *)

is_open(position) == position.status = OPEN

\* Position.from_filled_order.  Its ValueError (order not filled, or no average
\* price) cannot occur: record_fill calls it only when is_filled holds, after
\* a fill of positive quantity has set avg_fill_price.
from_filled_order(order_id, order) ==
    [option_code |-> order.option_code,
     entry_order_id |-> order_id, quantity |-> order.filled_quantity,
     entry_price |-> order.avg_fill_price, status |-> OPEN,
     exit_price |-> NoPrice, exit_order_id |-> 0]

\* Position.close that leaves exit_price as it is
close_NoExitPrice(position, exit_price, exit_order_id) ==
    [position EXCEPT
       !.exit_order_id = exit_order_id,
       !.status = CLOSED]

\* Position.close
close(position, exit_price, exit_order_id) ==
    [position EXCEPT
       !.exit_price = Price(exit_price),
       !.exit_order_id = exit_order_id,
       !.status = CLOSED]

---------------------------------------------------------------------------
(* Derived views of the store *)

OrderIds == DOMAIN orders
PositionIds == DOMAIN positions

\* Ids a caller may pass: those in the store and one that is not
OrderIdArgs == OrderIds \cup {Len(orders) + 1}
PositionIdArgs == PositionIds \cup {Len(positions) + 1}

open_positions == {p \in PositionIds : is_open(positions[p])}

active_orders == {o \in OrderIds : is_active(orders[o])}

pending_approval == {o \in OrderIds : orders[o].status = PENDING_APPROVAL}

\* Sizes the bounds of the model are stated on
TotalFills == LET RECURSIVE Sum(_)
                  Sum(i) == IF i = 0 THEN 0 ELSE Len(orders[i].fills) + Sum(i - 1)
              IN Sum(Len(orders))

TotalInflight == LET RECURSIVE Sum(_)
                     Sum(i) == IF i = 0 THEN 0 ELSE inflight[i] + Sum(i - 1)
                 IN Sum(StoreCap)

\* can_open_position with the capacity test written > instead of >=
can_open_position_OffByOne == Cardinality(open_positions) <= max_positions

\* OrderManager.can_open_position
can_open_position == Cardinality(open_positions) < max_positions

\* The call that ran last.  id is the order or position id it was given (for a
\* create, the new order's id, 0 if none), reason the reason given to
\* reject_order (None for the other calls), ok the truth value of what it
\* returned (True, an Order, a Position), pos the id of the Position it
\* returned (0 if none).
Call(op, id, reason, ok, pos) ==
    [op |-> op, id |-> id, reason |-> reason, ok |-> ok, pos |-> pos]

Returned(op, id, ok, pos) == Call(op, id, None, ok, pos)

---------------------------------------------------------------------------
(* Session time: utils/time_utils.py *)

\* A datetime dt is the seconds after midnight of its day; parse_time gives
\* the time of day of a setting, which has no seconds.
parse_time(t) == t * SecondsPerMinute

\* get_session_phase with the time after the close taken for the time before the open
get_session_phase_NoAfterHours(dt) ==
    IF dt < parse_time(market_open) \/ dt >= parse_time(market_close) THEN PRE_MARKET
    ELSE IF dt < parse_time(prime_time_end) THEN PRIME_TIME
    ELSE IF dt < parse_time(lunch_end) THEN LUNCH_DOLDRUMS
    ELSE IF dt < parse_time(danger_zone_start) THEN MID_SESSION
    ELSE DANGER_ZONE

\* get_session_phase with the boundary of the afternoon given to mid_session
get_session_phase_ClosedLunch(dt) ==
    IF dt < parse_time(market_open) THEN PRE_MARKET
    ELSE IF dt < parse_time(prime_time_end) THEN PRIME_TIME
    ELSE IF dt <= parse_time(lunch_end) THEN LUNCH_DOLDRUMS
    ELSE IF dt < parse_time(danger_zone_start) THEN MID_SESSION
    ELSE IF dt < parse_time(market_close) THEN DANGER_ZONE
    ELSE AFTER_HOURS

get_session_phase(dt) ==
    IF dt < parse_time(market_open) THEN PRE_MARKET
    ELSE IF dt < parse_time(prime_time_end) THEN PRIME_TIME
    ELSE IF dt < parse_time(lunch_end) THEN LUNCH_DOLDRUMS
    ELSE IF dt < parse_time(danger_zone_start) THEN MID_SESSION
    ELSE IF dt < parse_time(market_close) THEN DANGER_ZONE
    ELSE AFTER_HOURS

\* minutes_to_close that rounds the remaining time up to a whole minute
minutes_to_close_Ceiling(dt) ==
    IF dt >= parse_time(market_close) THEN 0
    ELSE (parse_time(market_close) - dt + SecondsPerMinute - 1) \div SecondsPerMinute

\* int(delta.total_seconds() / 60) of a positive delta
minutes_to_close(dt) ==
    IF dt >= parse_time(market_close) THEN 0
    ELSE (parse_time(market_close) - dt) \div SecondsPerMinute

minutes_to_exit_deadline(dt) ==
    IF dt >= parse_time(exit_deadline) THEN 0
    ELSE (parse_time(exit_deadline) - dt) \div SecondsPerMinute

---------------------------------------------------------------------------
(* The _monitor_loop task.  pc is where the task is suspended: "start"
   (created, not yet run), "sleep" (asyncio.sleep(30)), "backoff"
   (asyncio.sleep(5) of the except branch), "broker" (the broker call of a
   close attempt), "done" (no task, or the task has ended).  cancelled: cancel()
   was called on it.  phase is the local of the iteration, positions the local
   list of _execute_auto_exit and idx the index of the for loop in it; awaited
   is the exit order whose broker call is awaited; warned: the iteration
   logged the exit-deadline warning; created: the exit orders the pass has
   stored so far.  The locals of a cancelled task are dropped: it never reads
   them again. *)

NoTask ==
    [pc |-> "done", cancelled |-> FALSE, phase |-> None, warned |-> FALSE,
     positions |-> <<>>, idx |-> 0, awaited |-> 0, created |-> {}]

TaskIds == 1..MaxTasks

\* The elements of a set of ids in ascending order: the order of the dict
\* the store keeps them in
RECURSIVE Ascending(_)
Ascending(S) ==
    IF S = {} THEN <<>>
    ELSE LET m == CHOOSE x \in S : \A y \in S : x <= y
         IN <<m>> \o Ascending(S \ {m})

---------------------------------------------------------------------------
(* Initial state: OrderManager.__init__, PositionTracker.__init__ *)

\* The statistics of the day as the tracker is constructed; recorded is the
\* list of the positions passed to record_closed_position since the last reset.
NoDaily == [pnl |-> Zero, trades |-> 0, wins |-> 0, recorded |-> <<>>]

\* No reading of the clock yet.  A reading keeps the instant read, what the three
\* functions of time_utils returned for it, and the reading before it.
NoClock ==
    [op |-> "init", now |-> 0, phase |-> None, minutes_to_close |-> 0,
     minutes_to_exit_deadline |-> 0, before |-> [op |-> "init", now |-> 0]]

NoRisk == [op |-> "init"]

Init ==
    /\ orders = <<>>
    /\ positions = <<>>
    /\ executor \in BOOLEAN
    /\ inflight = [i \in 1..StoreCap |-> 0]
    /\ last = Returned("init", 0, TRUE, 0)
    /\ running = FALSE
    /\ auto_exit_enabled = TRUE
    /\ monitor_task = 0
    /\ tasks = [t \in 1..MaxTasks |-> NoTask]
    /\ daily = NoDaily
    /\ clock = NoClock
    /\ risk = NoRisk

---------------------------------------------------------------------------
(* OrderManager operations *)

\* create_order_from_suggestion: hasContracts is "suggestion.contracts is not
\* empty" (Order.from_suggestion raises ValueError otherwise, caught here)
\* max_orders is the number of orders the model lets the store hold.
create_order_within(max_orders, hasContracts, qty) ==
    IF ~can_open_position \/ ~hasContracts
    THEN /\ last' = Returned("create_order_from_suggestion", 0, FALSE, 0)
         /\ UNCHANGED <<orders, positions, executor, inflight>>
    ELSE /\ Len(orders) < max_orders
         /\ orders' = Append(orders, from_suggestion(suggested_code(Len(orders) + 1), qty))
         /\ last' = Returned("create_order_from_suggestion", Len(orders) + 1, TRUE, 0)
         /\ UNCHANGED <<positions, executor, inflight>>

create_order_from_suggestion(hasContracts, qty) ==
    create_order_within(MaxOrders, hasContracts, qty)

\* approve_order without the PENDING_APPROVAL test
approve_order_NoStateCheck(order_id) ==
    IF order_id \notin OrderIds
    THEN /\ last' = Returned("approve_order", order_id, FALSE, 0)
         /\ UNCHANGED <<orders, positions, executor, inflight>>
    ELSE /\ orders' = [orders EXCEPT ![order_id].status = APPROVED]
         /\ last' = Returned("approve_order", order_id, TRUE, 0)
         /\ UNCHANGED <<positions, executor, inflight>>

approve_order(order_id) ==
    IF order_id \notin OrderIds \/ orders[order_id].status # PENDING_APPROVAL
    THEN /\ last' = Returned("approve_order", order_id, FALSE, 0)
         /\ UNCHANGED <<orders, positions, executor, inflight>>
    ELSE /\ orders' = [orders EXCEPT ![order_id].status = APPROVED]
         /\ last' = Returned("approve_order", order_id, TRUE, 0)
         /\ UNCHANGED <<positions, executor, inflight>>

\* reject_order that refuses every order that is not PENDING_APPROVAL
reject_order_PendingOnly(order_id, reason) ==
    IF order_id \notin OrderIds \/ orders[order_id].status # PENDING_APPROVAL
    THEN /\ last' = Call("reject_order", order_id, reason, FALSE, 0)
         /\ UNCHANGED <<orders, positions, executor, inflight>>
    ELSE /\ orders' = [orders EXCEPT ![order_id].status = CANCELLED,
                                     ![order_id].status_reason = reason]
         /\ last' = Call("reject_order", order_id, reason, TRUE, 0)
         /\ UNCHANGED <<positions, executor, inflight>>

reject_order(order_id, reason) ==
    IF order_id \notin OrderIds
    THEN /\ last' = Call("reject_order", order_id, reason, FALSE, 0)
         /\ UNCHANGED <<orders, positions, executor, inflight>>
    ELSE /\ orders' = [orders EXCEPT ![order_id].status = CANCELLED,
                                     ![order_id].status_reason = reason]
         /\ last' = Call("reject_order", order_id, reason, TRUE, 0)
         /\ UNCHANGED <<positions, executor, inflight>>

\* submit_order that leaves the order APPROVED when no executor is configured
submit_order_KeepsApproved(max_inflight, order_id) ==
    IF order_id \notin OrderIds \/ orders[order_id].status # APPROVED
    THEN /\ last' = Returned("submit_order", order_id, FALSE, 0)
         /\ UNCHANGED <<orders, positions, executor, inflight>>
    ELSE IF ~executor
    THEN /\ last' = Returned("submit_order", order_id, FALSE, 0)
         /\ UNCHANGED <<orders, positions, executor, inflight>>
    ELSE /\ TotalInflight < max_inflight
         /\ inflight' = [inflight EXCEPT ![order_id] = @ + 1]
         /\ last' = Returned("executor.submit_order", order_id, TRUE, 0)
         /\ UNCHANGED <<orders, positions, executor>>

\* submit_order up to "await self.executor.submit_order(order)": either it
\* returns False at once, or the broker is called and the call suspends
submit_order_within(max_inflight, order_id) ==
    IF order_id \notin OrderIds \/ orders[order_id].status # APPROVED
    THEN /\ last' = Returned("submit_order", order_id, FALSE, 0)
         /\ UNCHANGED <<orders, positions, executor, inflight>>
    ELSE IF ~executor
    THEN /\ orders' = [orders EXCEPT ![order_id].status = REJECTED,
                                     ![order_id].status_reason = "No executor"]
         /\ last' = Returned("submit_order", order_id, FALSE, 0)
         /\ UNCHANGED <<positions, executor, inflight>>
    ELSE /\ TotalInflight < max_inflight
         /\ inflight' = [inflight EXCEPT ![order_id] = @ + 1]
         /\ last' = Returned("executor.submit_order", order_id, TRUE, 0)
         /\ UNCHANGED <<orders, positions, executor>>

submit_order(order_id) == submit_order_within(MaxInflight, order_id)

\* submit_order_resume without the except branch: a raised exception leaves
\* the order as it is
submit_order_resume_NoExcept(order_id, outcome) ==
    /\ inflight[order_id] > 0
    /\ inflight' = [inflight EXCEPT ![order_id] = @ - 1]
    /\ IF outcome \in BrokerIds
       THEN /\ orders' = [orders EXCEPT ![order_id].broker_order_id = outcome,
                                        ![order_id].status = SUBMITTED]
            /\ last' = Returned("submit_order", order_id, TRUE, 0)
       ELSE IF outcome = None
       THEN /\ orders' = [orders EXCEPT ![order_id].status = REJECTED,
                                        ![order_id].status_reason = "Broker rejected"]
            /\ last' = Returned("submit_order", order_id, FALSE, 0)
       ELSE /\ orders' = orders
            /\ last' = Returned("submit_order", order_id, FALSE, 0)
    /\ UNCHANGED <<positions, executor>>

\* submit_order from the point where the awaited broker call completes with
\* outcome: a broker order id, None, or a raised exception
submit_order_resume(order_id, outcome) ==
    /\ inflight[order_id] > 0
    /\ inflight' = [inflight EXCEPT ![order_id] = @ - 1]
    /\ IF outcome \in BrokerIds
       THEN /\ orders' = [orders EXCEPT ![order_id].broker_order_id = outcome,
                                        ![order_id].status = SUBMITTED]
            /\ last' = Returned("submit_order", order_id, TRUE, 0)
       ELSE /\ orders' = [orders EXCEPT
                            ![order_id].status = REJECTED,
                            ![order_id].status_reason =
                                IF outcome = None THEN "Broker rejected" ELSE BrokerError]
            /\ last' = Returned("submit_order", order_id, FALSE, 0)
    /\ UNCHANGED <<positions, executor>>

\* record_fill without the side test: every order that fills up yields a Position
record_fill_AnySide(order_id, qty, price) ==
    IF order_id \notin OrderIds
    THEN /\ last' = Returned("record_fill", order_id, FALSE, 0)
         /\ UNCHANGED <<orders, positions, executor, inflight>>
    ELSE LET order == add_fill(orders[order_id], Fill(qty, price)) IN
         /\ TotalFills < MaxFills
         /\ orders' = [orders EXCEPT ![order_id] = order]
         /\ IF is_filled(order)
            THEN /\ positions' = Append(positions, from_filled_order(order_id, order))
                 /\ last' = Returned("record_fill", order_id, TRUE, Len(positions) + 1)
            ELSE /\ positions' = positions
                 /\ last' = Returned("record_fill", order_id, FALSE, 0)
         /\ UNCHANGED <<executor, inflight>>

\* record_fill; max_fills is the number of fills the model lets the store hold
record_fill_within(max_fills, order_id, qty, price) ==
    IF order_id \notin OrderIds
    THEN /\ last' = Returned("record_fill", order_id, FALSE, 0)
         /\ UNCHANGED <<orders, positions, executor, inflight>>
    ELSE LET order == add_fill(orders[order_id], Fill(qty, price)) IN
         /\ TotalFills < max_fills
         /\ orders' = [orders EXCEPT ![order_id] = order]
         /\ IF is_filled(order) /\ order.side = BUY
            THEN /\ positions' = Append(positions, from_filled_order(order_id, order))
                 /\ last' = Returned("record_fill", order_id, TRUE, Len(positions) + 1)
            ELSE /\ positions' = positions
                 /\ last' = Returned("record_fill", order_id, FALSE, 0)
         /\ UNCHANGED <<executor, inflight>>

record_fill(order_id, qty, price) == record_fill_within(MaxFills, order_id, qty, price)

\* close_position that reports success for a position id it does not find
close_position_UnknownOk(position_id, exit_price, exit_order_id) ==
    IF position_id \notin PositionIds
    THEN /\ last' = Returned("close_position", position_id, TRUE, 0)
         /\ UNCHANGED <<orders, positions, executor, inflight>>
    ELSE /\ positions' = [positions EXCEPT
                            ![position_id] = close(@, exit_price, exit_order_id)]
         /\ last' = Returned("close_position", position_id, TRUE, 0)
         /\ UNCHANGED <<orders, executor, inflight>>

close_position(position_id, exit_price, exit_order_id) ==
    IF position_id \notin PositionIds
    THEN /\ last' = Returned("close_position", position_id, FALSE, 0)
         /\ UNCHANGED <<orders, positions, executor, inflight>>
    ELSE /\ positions' = [positions EXCEPT
                            ![position_id] = close(@, exit_price, exit_order_id)]
         /\ last' = Returned("close_position", position_id, TRUE, 0)
         /\ UNCHANGED <<orders, executor, inflight>>

---------------------------------------------------------------------------
(* PositionTracker operations *)

\* An exit order for one contract whatever the position's quantity
exit_order_OneContract(position) ==
    [option_code |-> position.option_code,
     side |-> SELL, order_type |-> MARKET, quantity |-> 1,
     status |-> APPROVED, status_reason |-> None,
     filled_quantity |-> 0, avg_fill_price |-> NoPrice, fills |-> <<>>,
     broker_order_id |-> None]

\* An exit order that names the first contract whatever the position holds
exit_order_FirstCode(position) ==
    [option_code |-> suggested_code(1),
     side |-> SELL, order_type |-> MARKET, quantity |-> position.quantity,
     status |-> APPROVED, status_reason |-> None,
     filled_quantity |-> 0, avg_fill_price |-> NoPrice, fills |-> <<>>,
     broker_order_id |-> None]

\* The exit order close_position_market builds for a position
exit_order(position) ==
    [option_code |-> position.option_code,
     side |-> SELL, order_type |-> MARKET, quantity |-> position.quantity,
     status |-> APPROVED, status_reason |-> None,
     filled_quantity |-> 0, avg_fill_price |-> NoPrice, fills |-> <<>>,
     broker_order_id |-> None]

\* Broker calls awaited by monitor tasks (at most one per task): they are not
\* counted against MaxInflight
MonitorAwaited == Cardinality({t \in TaskIds : tasks[t].pc = "broker"})

\* close_position_market from "exit_order = Order(...)" to the assignment of
\* position.status: the store with the exit order of an open position
\* added and linked, and the position marked closing
mark_closing(ords, poss, position_id) ==
    [orders |-> Append(ords, exit_order(poss[position_id])),
     positions |-> [poss EXCEPT ![position_id].exit_order_id = Len(ords) + 1,
                                ![position_id].status = CLOSING]]

\* close_position_market without the is_open test
close_position_market_NoOpenCheck(position_id) ==
    LET store == mark_closing(orders, positions, position_id)
        exit_id == Len(store.orders)
    IN
    /\ exit_id <= StoreCap
    /\ orders' = store.orders
    /\ positions' = store.positions
    /\ IF executor
       THEN /\ TotalInflight - MonitorAwaited < MaxInflight
            /\ inflight' = [inflight EXCEPT ![exit_id] = @ + 1]
            /\ last' = Returned("close_position_market", position_id, TRUE, 0)
       ELSE /\ inflight' = inflight
            /\ last' = Returned("close_position_market", position_id, FALSE, 0)
    /\ UNCHANGED executor

\* close_position_market that returns True when no executor is configured
close_position_market_SilentOk(position_id) ==
    IF ~is_open(positions[position_id])
    THEN /\ last' = Returned("close_position_market", position_id, FALSE, 0)
         /\ UNCHANGED <<orders, positions, executor, inflight>>
    ELSE LET store == mark_closing(orders, positions, position_id)
             exit_id == Len(store.orders)
         IN
         /\ exit_id <= StoreCap
         /\ orders' = store.orders
         /\ positions' = store.positions
         /\ IF executor
            THEN /\ TotalInflight - MonitorAwaited < MaxInflight
                 /\ inflight' = [inflight EXCEPT ![exit_id] = @ + 1]
            ELSE inflight' = inflight
         /\ last' = Returned("close_position_market", position_id, TRUE, 0)
         /\ UNCHANGED executor

\* close_position_market up to the broker await of the submit_order it calls:
\* a position that is not open returns False at once; otherwise the exit order
\* is stored and linked and the position is marked closing, and then either
\* no executor is configured (False is returned) or submit_order on the exit
\* order, which is APPROVED, calls the broker and the call suspends
close_position_market(position_id) ==
    IF ~is_open(positions[position_id])
    THEN /\ last' = Returned("close_position_market", position_id, FALSE, 0)
         /\ UNCHANGED <<orders, positions, executor, inflight>>
    ELSE LET store == mark_closing(orders, positions, position_id)
             exit_id == Len(store.orders)
         IN
         /\ exit_id <= StoreCap
         /\ orders' = store.orders
         /\ positions' = store.positions
         /\ IF executor
            THEN /\ TotalInflight - MonitorAwaited < MaxInflight
                 /\ inflight' = [inflight EXCEPT ![exit_id] = @ + 1]
                 /\ last' = Returned("close_position_market", position_id, TRUE, 0)
            ELSE /\ inflight' = inflight
                 /\ last' = Returned("close_position_market", position_id, FALSE, 0)
         /\ UNCHANGED executor

\* The assignable attribute auto_exit_enabled
set_auto_exit_enabled(enabled) ==
    /\ auto_exit_enabled' = enabled
    /\ last' = Returned("set_auto_exit_enabled", 0, enabled, 0)
    /\ UNCHANGED <<orders, positions, executor, inflight, running, monitor_task, tasks>>

\* start_monitoring that creates a task whether or not one is running
start_monitoring_NoRunningCheck ==
    /\ \E t \in TaskIds :
         /\ tasks[t].pc = "done"
         /\ \A u \in TaskIds : tasks[u].pc = "done" => t <= u
         /\ running' = TRUE
         /\ monitor_task' = t
         /\ tasks' = [tasks EXCEPT ![t] = [NoTask EXCEPT !.pc = "start"]]
    /\ last' = Returned("start_monitoring", 0, TRUE, 0)
    /\ UNCHANGED <<orders, positions, executor, inflight, auto_exit_enabled>>

\* start_monitoring: the new task takes the first free task id
start_monitoring ==
    /\ IF running
       THEN UNCHANGED <<running, monitor_task, tasks>>
       ELSE \E t \in TaskIds :
              /\ tasks[t].pc = "done"
              /\ \A u \in TaskIds : tasks[u].pc = "done" => t <= u
              /\ running' = TRUE
              /\ monitor_task' = t
              /\ tasks' = [tasks EXCEPT ![t] = [NoTask EXCEPT !.pc = "start"]]
    /\ last' = Returned("start_monitoring", 0, TRUE, 0)
    /\ UNCHANGED <<orders, positions, executor, inflight, auto_exit_enabled>>

stop_monitoring ==
    /\ running' = FALSE
    /\ monitor_task' = 0
    /\ tasks' = IF monitor_task # 0
                THEN [tasks EXCEPT ![monitor_task] =
                        [NoTask EXCEPT !.pc = tasks[monitor_task].pc,
                                       !.awaited = tasks[monitor_task].awaited,
                                       !.cancelled = TRUE]]
                ELSE tasks
    /\ last' = Returned("stop_monitoring", 0, TRUE, 0)
    /\ UNCHANGED <<orders, positions, executor, inflight, auto_exit_enabled>>

\* The order after the awaited broker call of submit_order completed with outcome
after_broker_call(order, outcome) ==
    IF outcome \in BrokerIds
    THEN [order EXCEPT !.broker_order_id = outcome, !.status = SUBMITTED]
    ELSE [order EXCEPT !.status = REJECTED,
                       !.status_reason =
                           IF outcome = None THEN "Broker rejected" ELSE BrokerError]

\* run_auto_exit that gives up the rest of the list after a close attempt
\* that returned False
RECURSIVE run_auto_exit_StopOnFailure(_, _, _, _, _)
run_auto_exit_StopOnFailure(ords, poss, list, i, created) ==
    IF i > Len(list)
    THEN [orders |-> ords, positions |-> poss, idx |-> i, awaited |-> 0, created |-> created]
    ELSE IF i > 1 /\ poss[list[i - 1]].exit_order_id \in DOMAIN ords
                  /\ ords[poss[list[i - 1]].exit_order_id].status # SUBMITTED
    THEN [orders |-> ords, positions |-> poss, idx |-> Len(list) + 1, awaited |-> 0,
          created |-> created]
    ELSE IF ~is_open(poss[list[i]])
    THEN run_auto_exit_StopOnFailure(ords, poss, list, i + 1, created)
    ELSE LET store == mark_closing(ords, poss, list[i])
             exit_id == Len(store.orders)
         IN IF executor
            THEN [orders |-> store.orders, positions |-> store.positions, idx |-> i,
                  awaited |-> exit_id, created |-> created \cup {exit_id}]
            ELSE run_auto_exit_StopOnFailure(store.orders, store.positions, list, i + 1,
                                             created \cup {exit_id})

\* The for loop of _execute_auto_exit from index i on, up to its next
\* suspension: a position of the list that is no longer open is passed over;
\* for an open one the exit order is stored and linked, and with an executor
\* the loop suspends at the broker call for it (awaited is the exit order),
\* without one it goes on.  awaited = 0: the loop has ended.
RECURSIVE run_auto_exit(_, _, _, _, _)
run_auto_exit(ords, poss, list, i, created) ==
    IF i > Len(list)
    THEN [orders |-> ords, positions |-> poss, idx |-> i, awaited |-> 0, created |-> created]
    ELSE IF ~is_open(poss[list[i]])
    THEN run_auto_exit(ords, poss, list, i + 1, created)
    ELSE LET store == mark_closing(ords, poss, list[i])
             exit_id == Len(store.orders)
         IN IF executor
            THEN [orders |-> store.orders, positions |-> store.positions, idx |-> i,
                  awaited |-> exit_id, created |-> created \cup {exit_id}]
            ELSE run_auto_exit(store.orders, store.positions, list, i + 1,
                               created \cup {exit_id})

\* The rest of an iteration after the auto-exit part: the exit-deadline
\* warning, then asyncio.sleep(30)
end_iteration(task, poss, dt) ==
    LET mins == minutes_to_exit_deadline(dt) IN
    [task EXCEPT !.pc = "sleep", !.awaited = 0, !.positions = <<>>, !.idx = 0,
                 !.created = {},
                 !.warned = (mins <= 5 /\ \E p \in DOMAIN poss : is_open(poss[p]))]

\* The task after the for loop of _execute_auto_exit ran up to its next suspension
after_auto_exit(task, r, dt) ==
    LET t == [task EXCEPT !.idx = r.idx, !.created = r.created] IN
    IF r.awaited # 0
    THEN [t EXCEPT !.pc = "broker", !.awaited = r.awaited]
    ELSE end_iteration(t, r.positions, dt)

\* The store, the broker calls and task t after the for loop ran up to r
auto_exit_step(t, task, r, flight, dt) ==
    /\ Len(r.orders) <= StoreCap
    /\ orders' = r.orders
    /\ positions' = r.positions
    /\ inflight' = IF r.awaited # 0 THEN [flight EXCEPT ![r.awaited] = @ + 1] ELSE flight
    /\ tasks' = [tasks EXCEPT ![t] = after_auto_exit(task, r, dt)]

\* An iteration of _monitor_loop that forces the exit whenever the exit
\* deadline is at most 5 minutes away, whatever the phase
monitor_iteration_DeadlineTrigger(t, dt, raises) ==
    /\ tasks[t].pc \in {"start", "sleep", "backoff"}
    /\ ~tasks[t].cancelled
    /\ last' = Returned("_monitor_loop", t, ~raises, 0)
    /\ UNCHANGED <<executor, running, auto_exit_enabled, monitor_task>>
    /\ IF ~running
       THEN /\ tasks' = [tasks EXCEPT ![t] = NoTask]
            /\ UNCHANGED <<orders, positions, inflight>>
       ELSE IF raises
       THEN /\ tasks' = [tasks EXCEPT ![t] = [NoTask EXCEPT !.pc = "backoff"]]
            /\ UNCHANGED <<orders, positions, inflight>>
       ELSE LET phase == get_session_phase(dt)
                task == [NoTask EXCEPT !.phase = phase]
            IN IF minutes_to_exit_deadline(dt) <= 5
               THEN LET list == Ascending(open_positions)
                        r == run_auto_exit(orders, positions, list, 1, {})
                    IN auto_exit_step(t, [task EXCEPT !.positions = list], r, inflight, dt)
               ELSE /\ tasks' = [tasks EXCEPT ![t] = end_iteration(task, positions, dt)]
                    /\ UNCHANGED <<orders, positions, inflight>>

\* _monitor_loop from a wake-up (the task starts, or a sleep returns) to its
\* next suspension.  dt is the clock reading of the iteration; raises: an
\* exception is raised in the try block before anything is changed.
monitor_iteration(t, dt, raises) ==
    /\ tasks[t].pc \in {"start", "sleep", "backoff"}
    /\ ~tasks[t].cancelled
    /\ last' = Returned("_monitor_loop", t, ~raises, 0)
    /\ UNCHANGED <<executor, running, auto_exit_enabled, monitor_task>>
    /\ IF ~running
       THEN /\ tasks' = [tasks EXCEPT ![t] = NoTask]
            /\ UNCHANGED <<orders, positions, inflight>>
       ELSE IF raises
       THEN /\ tasks' = [tasks EXCEPT ![t] = [NoTask EXCEPT !.pc = "backoff"]]
            /\ UNCHANGED <<orders, positions, inflight>>
       ELSE LET phase == get_session_phase(dt)
                task == [NoTask EXCEPT !.phase = phase]
            IN IF phase = DANGER_ZONE /\ auto_exit_enabled
               THEN LET list == Ascending(open_positions)
                        r == run_auto_exit(orders, positions, list, 1, {})
                    IN auto_exit_step(t, [task EXCEPT !.positions = list], r, inflight, dt)
               ELSE /\ tasks' = [tasks EXCEPT ![t] = end_iteration(task, positions, dt)]
                    /\ UNCHANGED <<orders, positions, inflight>>

\* The broker call awaited by a close attempt of task t completes with
\* outcome: submit_order and close_position_market return, and the for loop
\* of _execute_auto_exit goes on with the next position of its list
monitor_resume(t, outcome, dt) ==
    /\ tasks[t].pc = "broker"
    /\ ~tasks[t].cancelled
    /\ LET task == tasks[t]
           exit_id == task.awaited
           ords == [orders EXCEPT ![exit_id] = after_broker_call(@, outcome)]
           r == run_auto_exit(ords, positions, task.positions, task.idx + 1, task.created)
       IN auto_exit_step(t, task, r, [inflight EXCEPT ![exit_id] = @ - 1], dt)
    /\ last' = Returned("_execute_auto_exit", t, outcome \in BrokerIds, 0)
    /\ UNCHANGED <<executor, running, auto_exit_enabled, monitor_task>>

\* A cancelled task is resumed: CancelledError is raised at the await it is
\* suspended at (it passes through submit_order's "except Exception") and
\* the task ends; a broker call it awaited is cancelled with it
monitor_cancelled(t) ==
    /\ tasks[t].pc # "done"
    /\ tasks[t].cancelled
    /\ tasks' = [tasks EXCEPT ![t] = NoTask]
    /\ inflight' = IF tasks[t].pc = "broker"
                   THEN [inflight EXCEPT ![tasks[t].awaited] = @ - 1]
                   ELSE inflight
    /\ last' = Returned("CancelledError", t, FALSE, 0)
    /\ UNCHANGED <<orders, positions, executor, running, auto_exit_enabled, monitor_task>>

---------------------------------------------------------------------------
(* The order manager with manual closes: the tracker is constructed and its
   monitor is never started *)

Next ==
    \/ /\ \E hasContracts \in BOOLEAN, qty \in 1..MaxQty :
             create_order_from_suggestion(hasContracts, qty)
       /\ UNCHANGED <<trackerVars, readingVars>>
    \/ /\ \E order_id \in OrderIdArgs : approve_order(order_id)
       /\ UNCHANGED <<trackerVars, readingVars>>
    \/ /\ \E order_id \in OrderIdArgs, reason \in Reasons : reject_order(order_id, reason)
       /\ UNCHANGED <<trackerVars, readingVars>>
    \/ /\ \E order_id \in OrderIdArgs : submit_order(order_id)
       /\ UNCHANGED <<trackerVars, readingVars>>
    \/ /\ \E order_id \in 1..MaxOrders, outcome \in BrokerOutcomes :
             submit_order_resume(order_id, outcome)
       /\ UNCHANGED <<trackerVars, readingVars>>
    \/ /\ \E order_id \in OrderIdArgs, qty \in 1..MaxFillQty, price \in Prices :
             record_fill(order_id, qty, price)
       /\ UNCHANGED <<trackerVars, readingVars>>
    \/ /\ \E position_id \in PositionIdArgs, exit_price \in Prices, exit_order_id \in OrderIds :
             close_position(position_id, exit_price, exit_order_id)
       /\ UNCHANGED <<trackerVars, readingVars>>
    \/ /\ \E position_id \in PositionIds :
             /\ Len(orders) < MaxOrders \/ ~is_open(positions[position_id])
             /\ close_position_market(position_id)
       /\ UNCHANGED <<trackerVars, readingVars>>

Spec == Init /\ [][Next]_vars

---------------------------------------------------------------------------
(* The order manager with fills at different prices: orders are created,
   approved, submitted and filled; nothing is rejected or closed *)

FillPrices == 1..MaxFillPrice

NextFills ==
    \/ /\ \E hasContracts \in BOOLEAN, qty \in 1..MaxQty :
             create_order_from_suggestion(hasContracts, qty)
       /\ UNCHANGED <<trackerVars, readingVars>>
    \/ /\ \E order_id \in OrderIdArgs : approve_order(order_id)
       /\ UNCHANGED <<trackerVars, readingVars>>
    \/ /\ \E order_id \in OrderIdArgs : submit_order(order_id)
       /\ UNCHANGED <<trackerVars, readingVars>>
    \/ /\ \E order_id \in 1..MaxOrders, outcome \in BrokerOutcomes :
             submit_order_resume(order_id, outcome)
       /\ UNCHANGED <<trackerVars, readingVars>>
    \/ /\ \E order_id \in OrderIdArgs, qty \in 1..MaxFillQty, price \in FillPrices :
             record_fill(order_id, qty, price)
       /\ UNCHANGED <<trackerVars, readingVars>>

SpecFills == Init /\ [][NextFills]_vars

---------------------------------------------------------------------------
(* The order manager with more orders than max_positions: orders that one
   fill fills up are created, approved, submitted and filled; nothing is
   rejected or closed *)

NextGate ==
    \/ /\ \E hasContracts \in BOOLEAN, qty \in 1..MaxFillQty :
             create_order_within(MaxGateOrders, hasContracts, qty)
       /\ UNCHANGED <<trackerVars, readingVars>>
    \/ /\ \E order_id \in OrderIdArgs : approve_order(order_id)
       /\ UNCHANGED <<trackerVars, readingVars>>
    \/ /\ \E order_id \in OrderIdArgs : submit_order(order_id)
       /\ UNCHANGED <<trackerVars, readingVars>>
    \/ /\ \E order_id \in 1..MaxGateOrders, outcome \in BrokerOutcomes :
             submit_order_resume(order_id, outcome)
       /\ UNCHANGED <<trackerVars, readingVars>>
    \/ /\ \E order_id \in OrderIdArgs, qty \in 1..MaxFillQty, price \in Prices :
             record_fill_within(MaxGateFills, order_id, qty, price)
       /\ UNCHANGED <<trackerVars, readingVars>>

SpecGate == Init /\ [][NextGate]_vars

---------------------------------------------------------------------------
(* The order manager with concurrent submit_order calls: several calls may
   be suspended at "await self.executor.submit_order(order)" at once *)

NextSubmit ==
    \/ /\ \E hasContracts \in BOOLEAN, qty \in 1..MaxFillQty :
             create_order_from_suggestion(hasContracts, qty)
       /\ UNCHANGED <<trackerVars, readingVars>>
    \/ /\ \E order_id \in OrderIdArgs : approve_order(order_id)
       /\ UNCHANGED <<trackerVars, readingVars>>
    \/ /\ \E order_id \in OrderIdArgs, reason \in Reasons : reject_order(order_id, reason)
       /\ UNCHANGED <<trackerVars, readingVars>>
    \/ /\ \E order_id \in OrderIdArgs : submit_order_within(MaxSubmitCalls, order_id)
       /\ UNCHANGED <<trackerVars, readingVars>>
    \/ /\ \E order_id \in 1..MaxOrders, outcome \in BrokerOutcomes :
             submit_order_resume(order_id, outcome)
       /\ UNCHANGED <<trackerVars, readingVars>>

SpecSubmit == Init /\ [][NextSubmit]_vars

---------------------------------------------------------------------------
(* The order manager read by a caller: the properties orders, positions,
   open_positions, active_orders, pending_approval and can_open_position are
   evaluated on the store; the call returns what can_open_position returned. *)

read_views ==
    /\ last' = Returned("read_views", 0, can_open_position, 0)
    /\ UNCHANGED <<orders, positions, executor, inflight, trackerVars, readingVars>>

NextViews ==
    \/ Next
    \/ read_views

SpecViews == Init /\ [][NextViews]_vars

---------------------------------------------------------------------------
(* The advisory calls of llm/: they read the order or the position, the
   store and the tracker, ask the LLM and return an LLMAnalysis or None.
   The outcome of a call is "disabled" (settings.llm_enabled is off),
   "unavailable" (the client is not configured), "failed" (the LLM call gave
   no response that parses) or "analysis". *)

AdvisoryOutcomes == {"disabled", "unavailable", "failed", "analysis"}

\* evaluate_order that rejects the order when the LLM gives no analysis
evaluate_order_Gating(order_id, outcome) ==
    /\ last' = Returned("evaluate_order", order_id, outcome = "analysis", 0)
    /\ orders' = IF outcome = "analysis" THEN orders
                 ELSE [orders EXCEPT ![order_id].status = REJECTED]
    /\ UNCHANGED <<positions, executor, inflight, trackerVars, readingVars>>

evaluate_order(order_id, outcome) ==
    /\ last' = Returned("evaluate_order", order_id, outcome = "analysis", 0)
    /\ UNCHANGED <<orders, positions, executor, inflight, trackerVars, readingVars>>

evaluate_position(position_id, outcome) ==
    /\ last' = Returned("evaluate_position", position_id, outcome = "analysis", 0)
    /\ UNCHANGED <<orders, positions, executor, inflight, trackerVars, readingVars>>

NextAdvisory ==
    \/ Next
    \/ \E order_id \in OrderIds, outcome \in AdvisoryOutcomes :
          evaluate_order(order_id, outcome)
    \/ \E position_id \in PositionIds, outcome \in AdvisoryOutcomes :
          evaluate_position(position_id, outcome)

SpecAdvisory == Init /\ [][NextAdvisory]_vars

---------------------------------------------------------------------------
(* The order manager and the position tracker with its monitor *)

\* No monitor task awaits the broker call of order_id
NotAwaitedByMonitor(order_id) == \A t \in TaskIds : tasks[t].awaited # order_id

\* A BUY order of quantity qty as create_order_from_suggestion, approve_order,
\* submit_order (the broker returns an id) and qty record_fills of one
\* contract at price 1 leave it
RECURSIVE fill_up(_, _)
fill_up(order, n) == IF n = 0 THEN order ELSE fill_up(add_fill(order, Fill(1, 1)), n - 1)

filled_buy(option_code, qty) ==
    fill_up(after_broker_call([from_suggestion(option_code, qty) EXCEPT !.status = APPROVED],
                              "B1"), qty)

\* Quantity of the n-th order of the initial store: 1, 2, .., MaxQty, 1, ..
entry_quantity(n) == ((n - 1) % MaxQty) + 1

\* The monitor is studied from a store that holds up to max_positions filled
\* BUY orders, the n-th with the open position n that record_fill created
InitMonitor ==
    /\ \E n \in 0..max_positions :
         /\ orders = [i \in 1..n |-> filled_buy(suggested_code(i), entry_quantity(i))]
         /\ positions = [i \in 1..n |->
                           from_filled_order(i, filled_buy(suggested_code(i),
                                                           entry_quantity(i)))]
    /\ executor \in BOOLEAN
    /\ inflight = [i \in 1..StoreCap |-> 0]
    /\ last = Returned("init", 0, TRUE, 0)
    /\ running = FALSE
    /\ auto_exit_enabled = TRUE
    /\ monitor_task = 0
    /\ tasks = [t \in 1..MaxTasks |-> NoTask]
    /\ daily = NoDaily
    /\ clock = NoClock
    /\ risk = NoRisk

NextMonitor ==
    \/ /\ \E order_id \in OrderIds, outcome \in BrokerOutcomes :
             NotAwaitedByMonitor(order_id) /\ submit_order_resume(order_id, outcome)
       /\ UNCHANGED <<trackerVars, readingVars>>
    \/ /\ \E position_id \in PositionIds : close_position_market(position_id)
       /\ UNCHANGED <<trackerVars, readingVars>>
    \/ /\ \E enabled \in BOOLEAN : set_auto_exit_enabled(enabled)
       /\ UNCHANGED readingVars
    \/ /\ start_monitoring
       /\ UNCHANGED readingVars
    \/ /\ stop_monitoring
       /\ UNCHANGED readingVars
    \/ /\ \E t \in TaskIds, dt \in Instants, raises \in BOOLEAN :
             monitor_iteration(t, dt, raises)
       /\ UNCHANGED readingVars
    \/ /\ \E t \in TaskIds, outcome \in BrokerOutcomes, dt \in Instants :
             monitor_resume(t, outcome, dt)
       /\ UNCHANGED readingVars
    \/ /\ \E t \in TaskIds : monitor_cancelled(t)
       /\ UNCHANGED readingVars

SpecMonitor == InitMonitor /\ [][NextMonitor]_vars

---------------------------------------------------------------------------
(* The running monitor on the wall clock, around the start of the danger
   zone.  clock.now is the time of the last step of the monitor task in
   seconds after midnight and clock.wake the time its sleep returns.  The
   monitor was started shortly before or at 15:30 with auto-exit enabled and
   is not stopped; no exception is raised in its loop.  A broker call the
   task awaits is answered at once or after QuickAnswer or StalledAnswer
   seconds. *)

MonitorStarts == {parse_time(danger_zone_start) - d : d \in {0, 1, 15, PollSeconds}}

BrokerLatencies == {0, QuickAnswer, StalledAnswer}

Horizon == parse_time(market_close)

\* the wall clock after a step of the task at dt: asyncio.sleep(30) returns
\* PollSeconds later
Wall(dt, task) ==
    [op |-> "wall", now |-> dt,
     wake |-> IF task.pc = "sleep" THEN dt + PollSeconds ELSE dt]

InitDeadline ==
    /\ \E n \in 0..max_positions :
         /\ orders = [i \in 1..n |-> filled_buy(suggested_code(i), entry_quantity(i))]
         /\ positions = [i \in 1..n |->
                           from_filled_order(i, filled_buy(suggested_code(i),
                                                           entry_quantity(i)))]
    /\ executor \in BOOLEAN
    /\ inflight = [i \in 1..StoreCap |-> 0]
    /\ last = Returned("init", 0, TRUE, 0)
    /\ running = TRUE
    /\ auto_exit_enabled = TRUE
    /\ monitor_task = 1
    /\ tasks = [t \in 1..MaxTasks |-> IF t = 1 THEN [NoTask EXCEPT !.pc = "start"] ELSE NoTask]
    /\ daily = NoDaily
    /\ \E start \in MonitorStarts : clock = Wall(start, NoTask)
    /\ risk = NoRisk

\* the task starts, or its asyncio.sleep(30) returns, and an iteration runs
sleep_returns ==
    LET dt == IF tasks[monitor_task].pc = "start" THEN clock.now ELSE clock.wake IN
    /\ dt <= Horizon
    /\ monitor_iteration(monitor_task, dt, FALSE)
    /\ clock' = Wall(dt, tasks'[monitor_task])
    /\ UNCHANGED <<daily, risk>>

\* the broker answers the call the task awaits, latency seconds after the
\* last step of the task
broker_answers(outcome, latency) ==
    LET dt == clock.now + latency IN
    /\ dt <= Horizon
    /\ monitor_resume(monitor_task, outcome, dt)
    /\ clock' = Wall(dt, tasks'[monitor_task])
    /\ UNCHANGED <<daily, risk>>

NextDeadline ==
    \/ sleep_returns
    \/ \E outcome \in BrokerOutcomes, latency \in BrokerLatencies :
          broker_answers(outcome, latency)
    \/ /\ \E position_id \in PositionIds : close_position_market(position_id)
       /\ UNCHANGED <<trackerVars, readingVars>>
    \/ /\ \E order_id \in OrderIds, outcome \in BrokerOutcomes :
             NotAwaitedByMonitor(order_id) /\ submit_order_resume(order_id, outcome)
       /\ UNCHANGED <<trackerVars, readingVars>>

SpecDeadline == InitDeadline /\ [][NextDeadline]_vars

---------------------------------------------------------------------------
(* The session clock: get_session_phase, minutes_to_close and
   minutes_to_exit_deadline applied to the instants of a day.  The instants
   read are the seconds around the whole minutes at which a phase or a
   countdown changes, and around the minute before each. *)

ClockMarks ==
    LET at == {0, market_open, prime_time_end, lunch_end, danger_zone_start,
               exit_deadline, market_close, 24 * 60}
    IN  at \cup {m - 1 : m \in at}

ClockInstants ==
    {s \in {m * SecondsPerMinute + d : m \in ClockMarks, d \in -ClockSlack..ClockSlack} :
        0 <= s /\ s < 24 * 60 * SecondsPerMinute}

read_clock(dt) ==
    /\ clock' = [op |-> "read", now |-> dt,
                 phase |-> get_session_phase(dt),
                 minutes_to_close |-> minutes_to_close(dt),
                 minutes_to_exit_deadline |-> minutes_to_exit_deadline(dt),
                 before |-> [op |-> clock.op, now |-> clock.now]]
    /\ last' = Returned("read_clock", 0, TRUE, 0)
    /\ UNCHANGED <<orders, positions, executor, inflight, trackerVars, daily, risk>>

NextClock == \E dt \in ClockInstants : read_clock(dt)

SpecClock == Init /\ [][NextClock]_vars

---------------------------------------------------------------------------
(* analysis/risk.py RiskCalculator: position sizing, confidence and warnings.
   The functions are applied to arguments of any caller.  An optional value
   is a sequence of at most one value; the floats a caller passes are written
   as fractions <<n, d>>. *)

\* settings.max_risk_per_trade: 1%, the default 2%, 100%
RiskSettings == {<<1, 100>>, <<2, 100>>, <<1, 1>>}

AccountSizes == {0, 100, 25000}

MaxLosses == {<<-50, 1>>, <<0, 1>>, <<1, 2>>, <<1, 1>>, <<3, 1>>, <<250, 1>>, <<880, 1>>}

RewardRatios ==
    {<<0, 1>>, <<1, 1>>, <<6, 5>>, <<13, 10>>, <<3, 2>>, <<5, 3>>, <<2, 1>>, <<3, 1>>}

Sessions == {PRE_MARKET, PRIME_TIME, LUNCH_DOLDRUMS, MID_SESSION, DANGER_ZONE, AFTER_HOURS}

\* the fields of a TradingViewSignal that assess_confidence reads
SignalTypes == {RSI_OVERSOLD_LONG, RSI_OVERBOUGHT_SHORT, V_DIP_LONG, PIVOT_SUPPORT}

RsiValues == {<<>>, <<20>>, <<25>>, <<50>>, <<75>>, <<80>>}

PivotLevels == {None, "", "S1"}

VwapDistances == {<<>>, <<0, 1>>, <<1, 2>>, <<-1, 2>>, <<-3, 4>>, <<1, 1>>}

TradingViewSignal(signal_type, rsi, pivot_level, vwap_distance) ==
    [signal_type |-> signal_type, rsi |-> rsi, pivot_level |-> pivot_level,
     vwap_distance |-> IF vwap_distance = <<>> THEN <<>>
                       ELSE <<Ratio(vwap_distance[1], vwap_distance[2])>>]

MinutesLeft == {0, 30, 31, 60, 61, 390}

AccountRisks == {<<0, 1>>, <<1, 100>>, <<2, 100>>, <<3, 100>>, <<1, 1>>}

\* calculate_position_size without the minimum of one contract
calculate_position_size_NoMinimum(max_loss_per_contract, account_size, max_risk_per_trade) ==
    LET max_risk == Times(max_risk_per_trade, account_size)
    IN  IF max_loss_per_contract.num <= 0 THEN 1
        ELSE Truncate(max_risk, max_loss_per_contract)

calculate_position_size(max_loss_per_contract, account_size, max_risk_per_trade) ==
    LET max_risk == Times(max_risk_per_trade, account_size)
    IN  IF max_loss_per_contract.num <= 0 THEN 1
        ELSE LET size == Truncate(max_risk, max_loss_per_contract)
             IN  Max(1, size)

\* calculate_account_risk_percent: 0 for an account that is not positive
calculate_account_risk_percent(max_loss, quantity, account_size) ==
    LET total_risk == Times(max_loss, quantity)
    IN  IF account_size > 0
        THEN Ratio(total_risk.num, total_risk.den * account_size)
        ELSE Zero

\* calculate_risk_reward: the reward multiple, 0 without risk
calculate_risk_reward(entry, target, stop) ==
    LET risk_taken == Abs(Sub(entry, stop))
        reward == Abs(Sub(target, entry))
    IN  IF risk_taken.num <= 0 THEN Zero
        ELSE Ratio(reward.num * risk_taken.den, reward.den * risk_taken.num)

\* calculate_targets of a long option: target 45% gain, stop 27% loss
calculate_targets(entry_price) ==
    [target |-> Ratio(entry_price.num * 145, entry_price.den * 100),
     stop |-> Ratio(entry_price.num * 73, entry_price.den * 100)]

\* the score of assess_confidence: session, risk/reward, RSI, pivot, VWAP
session_score(session) ==
    IF session = PRIME_TIME THEN 3
    ELSE IF session = MID_SESSION THEN 2
    ELSE 0

rr_score(rr_ratio) ==
    IF Leq(Price(2), rr_ratio) THEN 3
    ELSE IF Leq(Div(3, 2), rr_ratio) THEN 2
    ELSE IF Leq(Div(6, 5), rr_ratio) THEN 1
    ELSE 0

rsi_score(signal) ==
    IF signal.rsi # <<>>
    THEN IF signal.signal_type \in {RSI_OVERSOLD_LONG, V_DIP_LONG}
         THEN IF signal.rsi[1] <= 20 THEN 2
              ELSE IF signal.rsi[1] <= 30 THEN 1
              ELSE 0
         ELSE IF signal.signal_type = RSI_OVERBOUGHT_SHORT
         THEN IF signal.rsi[1] >= 80 THEN 2
              ELSE IF signal.rsi[1] >= 70 THEN 1
              ELSE 0
         ELSE 0
    ELSE 0

pivot_score(signal) == IF signal.pivot_level \notin {None, ""} THEN 1 ELSE 0

vwap_score(signal) ==
    IF signal.vwap_distance # <<>> /\ Leq(Abs(signal.vwap_distance[1]), Div(1, 2))
    THEN 1 ELSE 0

confidence_score(signal, session, rr_ratio) ==
    session_score(session) + rr_score(rr_ratio) + rsi_score(signal)
    + pivot_score(signal) + vwap_score(signal)

assess_confidence(signal, session, rr_ratio) ==
    LET score == confidence_score(signal, session, rr_ratio)
    IN  IF score >= 7 THEN HIGH
        ELSE IF score >= 4 THEN MEDIUM
        ELSE LOW

\* the warnings, without the figures formatted into the last two
EXTREME_GAMMA == "Less than 30 minutes to close - extreme gamma risk"
ELEVATED_GAMMA == "Less than 1 hour to close - elevated gamma risk"
LUNCH_WARNING == "Lunch doldrums - lower volatility, wider spreads"
RR_WARNING == "R:R ratio below recommended 1.5"
ACCOUNT_RISK_WARNING == "Account risk exceeds max"

\* get_risk_warnings that gives the R:R warning before the session warning
get_risk_warnings_RewardFirst(session, mins, rr_ratio, account_risk_pct, max_risk_per_trade) ==
    (IF mins <= 30 THEN <<EXTREME_GAMMA>>
     ELSE IF mins <= 60 THEN <<ELEVATED_GAMMA>>
     ELSE <<>>)
    \o (IF ~Leq(Div(3, 2), rr_ratio) THEN <<RR_WARNING>> ELSE <<>>)
    \o (IF session = LUNCH_DOLDRUMS THEN <<LUNCH_WARNING>> ELSE <<>>)
    \o (IF ~Leq(account_risk_pct, max_risk_per_trade) THEN <<ACCOUNT_RISK_WARNING>> ELSE <<>>)

get_risk_warnings(session, mins, rr_ratio, account_risk_pct, max_risk_per_trade) ==
    (IF mins <= 30 THEN <<EXTREME_GAMMA>>
     ELSE IF mins <= 60 THEN <<ELEVATED_GAMMA>>
     ELSE <<>>)
    \o (IF session = LUNCH_DOLDRUMS THEN <<LUNCH_WARNING>> ELSE <<>>)
    \o (IF ~Leq(Div(3, 2), rr_ratio) THEN <<RR_WARNING>> ELSE <<>>)
    \o (IF ~Leq(account_risk_pct, max_risk_per_trade) THEN <<ACCOUNT_RISK_WARNING>> ELSE <<>>)

\* A call of one of the three functions: risk keeps the arguments and the
\* result until the caller drops them and calls again
Assessed(op, args, result) ==
    /\ risk' = [op |-> op, args |-> args, result |-> result]
    /\ last' = Returned(op, 0, TRUE, 0)
    /\ UNCHANGED <<orders, positions, executor, inflight, trackerVars, daily, clock>>

position_size_call(max_loss_per_contract, account_size, max_risk_per_trade) ==
    Assessed("calculate_position_size",
             [max_loss_per_contract |-> max_loss_per_contract,
              account_size |-> account_size,
              max_risk_per_trade |-> max_risk_per_trade],
             calculate_position_size(max_loss_per_contract, account_size, max_risk_per_trade))

confidence_call(signal, session, rr_ratio) ==
    Assessed("assess_confidence",
             [signal |-> signal, session |-> session, rr_ratio |-> rr_ratio],
             assess_confidence(signal, session, rr_ratio))

warnings_call(session, mins, rr_ratio, account_risk_pct, max_risk_per_trade) ==
    Assessed("get_risk_warnings",
             [session |-> session, minutes_to_close |-> mins, rr_ratio |-> rr_ratio,
              account_risk_pct |-> account_risk_pct,
              max_risk_per_trade |-> max_risk_per_trade],
             get_risk_warnings(session, mins, rr_ratio, account_risk_pct, max_risk_per_trade))

\* the premiums of a contract: $0.05, $1, $5, $10
Premiums == {<<1, 20>>, <<1, 1>>, <<5, 1>>, <<10, 1>>}

\* the signals a suggestion is built for
SuggestedSignals == {<<RSI_OVERSOLD_LONG, <<20>>>>, <<RSI_OVERSOLD_LONG, <<50>>>>,
                     <<RSI_OVERBOUGHT_SHORT, <<>>>>}

\* _build_long_option_suggestion from the entry price on: targets, loss per
\* contract, quantity, risk/reward, account risk, confidence and warnings
build_long_option_suggestion(signal, entry_price, session, mins, account_size, max_risk) ==
    LET targets == calculate_targets(entry_price)
        max_loss_per_contract == Times(entry_price, ContractMultiplier)
        quantity == calculate_position_size(max_loss_per_contract, account_size,
                                            max_risk)
        rr_ratio == calculate_risk_reward(entry_price, targets.target, targets.stop)
        account_risk_pct == calculate_account_risk_percent(max_loss_per_contract, quantity,
                                                           account_size)
    IN  Assessed("_build_long_option_suggestion",
                 [signal |-> signal, entry_price |-> entry_price, session |-> session,
                  minutes_to_close |-> mins, account_size |-> account_size,
                  max_risk_per_trade |-> max_risk,
                  max_loss_per_contract |-> max_loss_per_contract],
                 [quantity |-> quantity, rr_ratio |-> rr_ratio,
                  account_risk_pct |-> account_risk_pct,
                  confidence |-> assess_confidence(signal, session, rr_ratio),
                  warnings |-> get_risk_warnings(session, mins, rr_ratio, account_risk_pct,
                                                 max_risk)])

drop_assessment ==
    /\ risk # NoRisk
    /\ risk' = NoRisk
    /\ last' = Returned("drop_assessment", 0, TRUE, 0)
    /\ UNCHANGED <<orders, positions, executor, inflight, trackerVars, daily, clock>>

NextRisk ==
    \/ /\ risk = NoRisk
       /\ \E max_loss \in MaxLosses, account_size \in AccountSizes, max_risk \in RiskSettings :
             position_size_call(Ratio(max_loss[1], max_loss[2]), account_size,
                                Ratio(max_risk[1], max_risk[2]))
    \/ /\ risk = NoRisk
       /\ \E signal_type \in SignalTypes, rsi \in RsiValues, pivot_level \in PivotLevels,
             vwap_distance \in VwapDistances, session \in Sessions, rr \in RewardRatios :
             confidence_call(TradingViewSignal(signal_type, rsi, pivot_level, vwap_distance),
                             session, Ratio(rr[1], rr[2]))
    \/ /\ risk = NoRisk
       /\ \E session \in Sessions, mins \in MinutesLeft, rr \in RewardRatios,
             account_risk \in AccountRisks, max_risk \in RiskSettings :
             warnings_call(session, mins, Ratio(rr[1], rr[2]),
                           Ratio(account_risk[1], account_risk[2]),
                           Ratio(max_risk[1], max_risk[2]))
    \/ /\ risk = NoRisk
       /\ \E signal \in SuggestedSignals, entry_price \in Premiums, session \in Sessions,
             mins \in MinutesLeft, account_size \in AccountSizes, max_risk \in RiskSettings :
             build_long_option_suggestion(
                 TradingViewSignal(signal[1], signal[2], None, <<>>),
                 Ratio(entry_price[1], entry_price[2]), session, mins, account_size,
                 Ratio(max_risk[1], max_risk[2]))
    \/ drop_assessment

SpecRisk == Init /\ [][NextRisk]_vars

---------------------------------------------------------------------------
(* The statistics of the day: Position.realized_pnl and
   PositionTracker.record_closed_position / reset_daily_stats /
   get_daily_summary.  Nothing in the repository calls them; the caller passes
   any Position. *)

\* (exit_price - entry_price) * quantity * 100, NoPrice for None
realized_pnl(position) ==
    IF position.exit_price = NoPrice THEN NoPrice
    ELSE Times(Sub(position.exit_price, position.entry_price),
               position.quantity * ContractMultiplier)

\* The positions a caller records: entry at 1, 1.5 or 2, not exited or exited
\* at 1 or 2
EntryPrices == {<<1, 1>>, <<3, 2>>, <<2, 1>>}

ExitPrices == {<<>>, <<1>>, <<2>>}

Quantities == {1, 2}

RecordedPosition(entry_price, exit_price, quantity) ==
    [entry_price |-> Ratio(entry_price[1], entry_price[2]),
     exit_price |-> IF exit_price = <<>> THEN NoPrice ELSE Price(exit_price[1]),
     quantity |-> quantity]

\* record_closed_position that counts a position closed at its entry price as a win
record_closed_position_WinOnZero(position) ==
    /\ Len(daily.recorded) < MaxRecorded
    /\ LET pnl == realized_pnl(position) IN
         daily' = IF pnl = NoPrice
                  THEN [daily EXCEPT !.recorded = Append(@, position)]
                  ELSE [pnl |-> Add(daily.pnl, pnl),
                        trades |-> daily.trades + 1,
                        wins |-> IF pnl.num >= 0 THEN daily.wins + 1 ELSE daily.wins,
                        recorded |-> Append(daily.recorded, position)]
    /\ last' = Returned("record_closed_position", 0, TRUE, 0)
    /\ UNCHANGED <<orders, positions, executor, inflight, trackerVars, clock, risk>>

record_closed_position(position) ==
    /\ Len(daily.recorded) < MaxRecorded
    /\ LET pnl == realized_pnl(position) IN
         daily' = IF pnl = NoPrice
                  THEN [daily EXCEPT !.recorded = Append(@, position)]
                  ELSE [pnl |-> Add(daily.pnl, pnl),
                        trades |-> daily.trades + 1,
                        wins |-> IF pnl.num > 0 THEN daily.wins + 1 ELSE daily.wins,
                        recorded |-> Append(daily.recorded, position)]
    /\ last' = Returned("record_closed_position", 0, TRUE, 0)
    /\ UNCHANGED <<orders, positions, executor, inflight, trackerVars, clock, risk>>

reset_daily_stats ==
    /\ daily' = NoDaily
    /\ last' = Returned("reset_daily_stats", 0, TRUE, 0)
    /\ UNCHANGED <<orders, positions, executor, inflight, trackerVars, clock, risk>>

\* wins / trades, 0.0 without trades
daily_win_rate == IF daily.trades # 0 THEN Ratio(daily.wins, daily.trades) ELSE Zero

get_daily_summary ==
    [pnl |-> daily.pnl, trades |-> daily.trades, wins |-> daily.wins,
     losses |-> daily.trades - daily.wins, win_rate |-> daily_win_rate]

NextDaily ==
    \/ \E entry_price \in EntryPrices, exit_price \in ExitPrices, quantity \in Quantities :
          record_closed_position(RecordedPosition(entry_price, exit_price, quantity))
    \/ reset_daily_stats

SpecDaily == Init /\ [][NextDaily]_vars

---------------------------------------------------------------------------
(* Vocabulary of the properties *)

TerminalStatus == {FILLED, CANCELLED, REJECTED, EXPIRED}

\* The step is a call of op on id (a call that changes nothing but last, too)
Ran(op, id) == last'.op = op /\ last'.id = id

\* The step starts a submit_order call on id: it returns at once, or it calls
\* the broker and suspends
SubmitCalled(id) ==
    \/ Ran("submit_order", id) /\ inflight' = inflight
    \/ Ran("executor.submit_order", id)

\* The step completes the broker call awaited by a submit_order on id
SubmitResumed(id) == Ran("submit_order", id) /\ inflight'[id] = inflight[id] - 1

PositionsOf(order_id) == {p \in PositionIds : positions[p].entry_order_id = order_id}

StoreUnchanged == orders' = orders /\ positions' = positions /\ inflight' = inflight

---------------------------------------------------------------------------
(* C1: terminal order states are absorbing: an order whose status is FILLED,
   CANCELLED, REJECTED or EXPIRED keeps that status in every step. *)
C1_TerminalAbsorbing ==
    [][\A o \in OrderIds :
         orders[o].status \in TerminalStatus => orders'[o].status = orders[o].status]_vars

(* C2: record_fill on an order that is PENDING_APPROVAL or APPROVED does not
   move it to PARTIAL_FILL or FILLED and creates no Position. *)
C2_FillOnlyAfterSubmit ==
    [][\A o \in OrderIds :
         (Ran("record_fill", o) /\ orders[o].status \in {PENDING_APPROVAL, APPROVED})
            => /\ orders'[o].status \notin {PARTIAL_FILL, FILLED}
               /\ positions' = positions]_vars

(* C3: for every BUY order at most one Position of the store has that order
   as its entry order. *)
C3_OnePositionPerOrder ==
    \A o \in OrderIds : orders[o].side = BUY => Cardinality(PositionsOf(o)) <= 1

(* C4: for every order, filled_quantity <= quantity. *)
C4_FilledAtMostQuantity ==
    \A o \in OrderIds : orders[o].filled_quantity <= orders[o].quantity

(* C5: a record_fill on a BUY order that is SUBMITTED or PARTIAL_FILL and not
   yet filled up, whose fill does not exceed the remaining quantity: while the
   cumulative quantity stays below the order quantity the status becomes
   PARTIAL_FILL and no Position is returned or stored; when it reaches the
   order quantity the status becomes FILLED, a Position of that order is
   returned, and it is the only Position of that order in the store. *)
C5_FillsUpToQuantity ==
    [][\A o \in OrderIds :
         ( /\ Ran("record_fill", o)
           /\ orders[o].side = BUY
           /\ orders[o].status \in {SUBMITTED, PARTIAL_FILL}
           /\ orders[o].filled_quantity < orders[o].quantity
           /\ orders'[o].filled_quantity <= orders[o].quantity )
         => IF orders'[o].filled_quantity < orders[o].quantity
            THEN /\ orders'[o].status = PARTIAL_FILL
                 /\ ~last'.ok /\ last'.pos = 0
                 /\ positions' = positions
            ELSE /\ orders'[o].status = FILLED
                 /\ last'.ok /\ last'.pos \in DOMAIN positions'
                 /\ positions'[last'.pos].entry_order_id = o
                 /\ {p \in DOMAIN positions' : positions'[p].entry_order_id = o}
                       = {last'.pos}]_vars

\* A submitted quantity-2 order was filled by two fills, the second of which
\* returned the order's only Position
C5_Witness ==
    /\ last.op = "record_fill" /\ last.pos # 0
    /\ last.id \in OrderIds
    /\ LET order == orders[last.id] IN
         /\ order.broker_order_id # None
         /\ Len(order.fills) = 2
         /\ order.filled_quantity = order.quantity
         /\ order.status = FILLED
    /\ PositionsOf(last.id) = {last.pos}

(* C6: approve_order on an existing order that is not PENDING_APPROVAL returns
   False and changes neither that order nor anything else in the store; on a
   PENDING_APPROVAL order it returns True and the status becomes APPROVED. *)
C6_ApproveOnlyPending ==
    [][\A o \in OrderIds :
         Ran("approve_order", o)
         => IF orders[o].status # PENDING_APPROVAL
            THEN ~last'.ok /\ StoreUnchanged
            ELSE last'.ok /\ orders'[o].status = APPROVED]_vars

\* approve_order has just failed on an order that is in the store
C6_Witness ==
    /\ last.op = "approve_order" /\ ~last.ok
    /\ last.id \in OrderIds
    /\ orders[last.id].status # PENDING_APPROVAL

(* C7: create_order_from_suggestion called while the number of open positions
   is >= max_positions returns no order and leaves orders and positions
   unchanged. *)
C7_CapacityExceeded ==
    [][(last'.op = "create_order_from_suggestion"
          /\ Cardinality(open_positions) >= max_positions)
       => ~last'.ok /\ last'.id = 0 /\ StoreUnchanged]_vars

\* create_order_from_suggestion has just failed with max_positions positions
\* open and room left in the store
C7_Witness ==
    /\ last.op = "create_order_from_suggestion" /\ ~last.ok
    /\ Cardinality(open_positions) >= max_positions
    /\ Len(orders) < MaxOrders

(* C8: with an executor configured, a submit_order on an APPROVED order calls
   the broker, and when the broker call completes the order is either
   SUBMITTED with the broker's id recorded (submit_order returns True) or
   REJECTED with a status_reason (it returns False); a submit_order called on
   a REJECTED order returns False at once, calls no broker and changes
   nothing. *)
C8_SubmitOutcomes ==
    [][\A o \in OrderIds :
         /\ (SubmitCalled(o) /\ executor /\ orders[o].status = APPROVED)
               => /\ Ran("executor.submit_order", o)
                  /\ inflight'[o] = inflight[o] + 1
                  /\ orders' = orders
         /\ SubmitResumed(o)
               => \/ /\ last'.ok
                     /\ orders'[o].status = SUBMITTED
                     /\ orders'[o].broker_order_id \in BrokerIds
                  \/ /\ ~last'.ok
                     /\ orders'[o].status = REJECTED
                     /\ orders'[o].status_reason # None
                     /\ orders'[o].broker_order_id = orders[o].broker_order_id
         /\ (SubmitCalled(o) /\ orders[o].status = REJECTED)
               => Ran("submit_order", o) /\ ~last'.ok /\ StoreUnchanged]_vars

\* a submit_order has just returned False on an order the broker rejected
C8_Witness ==
    /\ executor
    /\ last.op = "submit_order" /\ ~last.ok
    /\ last.id \in OrderIds
    /\ orders[last.id].status = REJECTED
    /\ orders[last.id].status_reason \in {"Broker rejected", BrokerError}
    /\ inflight[last.id] = 0

(* C9: reject_order on an existing order that is PENDING_APPROVAL, APPROVED,
   SUBMITTED or PARTIAL_FILL returns True, sets the status to CANCELLED and
   status_reason to the given reason, and changes nothing else of that order,
   no other order and no position. *)
C9_RejectFromActive ==
    [][\A o \in OrderIds :
         (Ran("reject_order", o) /\ is_active(orders[o]))
         => /\ last'.ok
            /\ orders' = [orders EXCEPT ![o].status = CANCELLED,
                                        ![o].status_reason = last'.reason]
            /\ last'.reason \in Reasons
            /\ positions' = positions
            /\ inflight' = inflight]_vars

\* reject_order has just cancelled an order that had been submitted to the
\* broker, with another order in the store
C9_Witness ==
    /\ last.op = "reject_order" /\ last.ok
    /\ last.id \in OrderIds
    /\ orders[last.id].status = CANCELLED
    /\ orders[last.id].status_reason = last.reason
    /\ orders[last.id].broker_order_id # None
    /\ Len(orders) > 1

(* C10: approve_order, reject_order, submit_order and record_fill given an
   order id that is not in the store, and close_position given a position id
   that is not in the store, return False / no Position, change no order and
   no position, and do not call the broker. *)
C10_UnknownId ==
    [][\A op \in {"approve_order", "reject_order", "submit_order",
                  "executor.submit_order", "record_fill", "close_position"} :
         (last'.op = op
            /\ last'.id \notin (IF op = "close_position" THEN PositionIds ELSE OrderIds))
         => ~last'.ok /\ last'.pos = 0 /\ op # "executor.submit_order" /\ StoreUnchanged]_vars

\* close_position has just failed on an unknown position id while the store
\* holds orders and positions
C10_Witness ==
    /\ last.op = "close_position" /\ ~last.ok
    /\ last.id \notin PositionIds
    /\ Len(orders) > 0 /\ Len(positions) > 0

\* The step is task t running an iteration of _monitor_loop from its wake-up
MonitorIteration(t) == Ran("_monitor_loop", t) /\ tasks'[t] # tasks[t]

\* The step is task t going on with the for loop of _execute_auto_exit after
\* an awaited broker call
MonitorResumed(t) == Ran("_execute_auto_exit", t) /\ tasks'[t] # tasks[t]

\* The step is task t running (part of) a forced-flatten pass
InPass(t) ==
    \/ MonitorResumed(t)
    \/ /\ MonitorIteration(t)
       /\ running /\ last'.ok
       /\ tasks'[t].phase = DANGER_ZONE /\ auto_exit_enabled

\* The list of the pass and the part of it the step goes through
PassList(t) ==
    IF last'.op = "_monitor_loop" THEN Ascending(open_positions) ELSE tasks[t].positions

PassReached(t) ==
    LET list == PassList(t)
        from == IF last'.op = "_monitor_loop" THEN 1 ELSE tasks[t].idx + 1
        to == IF tasks'[t].pc = "broker" THEN tasks'[t].idx ELSE Len(list)
    IN {list[i] : i \in from..to}

\* Orders the step adds to the store
NewOrders == (Len(orders) + 1)..Len(orders')

\* In the state after the step, position p is closing and linked to a SELL
\* MARKET order of set S for its full quantity
ExitedBy(p, S) ==
    /\ positions'[p].status = CLOSING
    /\ positions'[p].exit_order_id \in S
    /\ LET order == orders'[positions'[p].exit_order_id] IN
         /\ order.side = SELL /\ order.order_type = MARKET
         /\ order.quantity = positions'[p].quantity
         /\ positions'[p].quantity = positions[p].quantity

(* C11: when a forced-flatten pass over a list of N positions ends, it has
   created exactly N orders, and every position of the list is closing and
   linked to a SELL MARKET order for its full quantity, a different one of
   these N orders for each position. *)
C11_FlattenCreatesN ==
    [][\A t \in TaskIds :
         (InPass(t) /\ tasks'[t].pc = "sleep")
         => LET list == PassList(t)
                created == IF last'.op = "_monitor_loop" THEN NewOrders ELSE tasks[t].created
            IN /\ Cardinality(created) = Len(list)
               /\ \A i \in 1..Len(list) : ExitedBy(list[i], created)
               /\ \A i, j \in 1..Len(list) :
                    i # j => positions'[list[i]].exit_order_id
                                # positions'[list[j]].exit_order_id]_vars

(* C11 as amended: every step of a forced-flatten pass adds to the store
   exactly one order for each position of its list that it reaches and finds
   open: a SELL MARKET order for the position's full quantity, linked as the
   position's exit_order_id, a different order for each such position, and
   the position is closing after the step.  A position it finds not open any
   more gets no order and is left as it is, as is every other position.
   Without an executor the pass is one step that reaches every position of
   the list. *)
C11_FlattenEachOpen ==
    [][\A t \in TaskIds :
         InPass(t)
         => LET reached == PassReached(t)
                found == {p \in reached : is_open(positions[p])}
            IN /\ Cardinality(NewOrders) = Cardinality(found)
               /\ \A p \in found : ExitedBy(p, NewOrders)
               /\ \A p, q \in found :
                    p # q => positions'[p].exit_order_id # positions'[q].exit_order_id
               /\ \A p \in PositionIds \ found : positions'[p] = positions[p]
               /\ \A o \in NewOrders : \E p \in found : positions'[p].exit_order_id = o
               /\ ~executor => reached = open_positions /\ tasks'[t].pc = "sleep"]_vars

\* a pass that awaited the broker twice has just ended: it closed both
\* positions of the store, of different quantities, with two orders of its own
C11_Witness ==
    /\ executor
    /\ last.op = "_execute_auto_exit"
    /\ last.id \in TaskIds
    /\ tasks[last.id].pc = "sleep" /\ tasks[last.id].phase = DANGER_ZONE
    /\ Len(positions) = 2 /\ Len(orders) = 4
    /\ positions[1].quantity # positions[2].quantity
    /\ \A p \in PositionIds :
         /\ positions[p].status = CLOSING
         /\ positions[p].exit_order_id = p + 2
         /\ orders[p + 2].side = SELL
         /\ orders[p + 2].quantity = positions[p].quantity

(* C12: every change of a Position's status is open -> closing or
   closing -> closed. *)
C12_PositionStateMachine ==
    [][\A p \in PositionIds :
         positions'[p].status # positions[p].status
         => <<positions[p].status, positions'[p].status>>
               \in {<<OPEN, CLOSING>>, <<CLOSING, CLOSED>>}]_vars

(* C13: the record_fill that brings the submitted exit order of a closing
   position to FILLED leaves that position closed with its exit price set. *)
C13_FilledExitCloses ==
    [][\A p \in PositionIds, o \in OrderIds :
         ( /\ Ran("record_fill", o)
           /\ positions[p].status = CLOSING
           /\ positions[p].exit_order_id = o
           /\ orders[o].status \in {SUBMITTED, PARTIAL_FILL}
           /\ orders'[o].status = FILLED )
         => /\ positions'[p].status = CLOSED
            /\ positions'[p].exit_price # NoPrice]_vars

(* C14: every open Position has exit_price unset and every closed Position
   has exit_price set. *)
C14_ExitPriceIffClosed ==
    \A p \in PositionIds :
        /\ positions[p].status = OPEN => positions[p].exit_price = NoPrice
        /\ positions[p].status = CLOSED => positions[p].exit_price # NoPrice

\* one position has been closed at a price while another is still open
C14_Witness ==
    \E p, q \in PositionIds :
        /\ positions[p].status = CLOSED /\ positions[p].exit_price \in {Price(x) : x \in Prices}
        /\ positions[q].status = OPEN

(* C15: the store gains a Position only in a record_fill step on an order
   that after the fill has side BUY and status FILLED; the new Position has
   that order's id, filled_quantity and avg_fill_price as entry_order_id,
   quantity and entry_price, and no step changes these three fields of a
   stored Position.  A record_fill on a SELL order leaves the positions as
   they are and returns no Position. *)
C15_PositionFromFilledBuy ==
    [][/\ \A p \in PositionIds :
            /\ p \in DOMAIN positions'
            /\ positions'[p].entry_order_id = positions[p].entry_order_id
            /\ positions'[p].quantity = positions[p].quantity
            /\ positions'[p].entry_price = positions[p].entry_price
       /\ Len(positions') # Len(positions)
            => /\ Len(positions') = Len(positions) + 1
               /\ last'.op = "record_fill" /\ last'.id \in OrderIds
               /\ last'.pos = Len(positions')
               /\ LET order == orders'[last'.id]
                      position == positions'[Len(positions')]
                  IN /\ order.side = BUY /\ order.status = FILLED
                     /\ orders[last'.id].side = BUY
                     /\ position.entry_order_id = last'.id
                     /\ position.quantity = order.filled_quantity
                     /\ position.entry_price = order.avg_fill_price
       /\ \A o \in OrderIds :
            (Ran("record_fill", o) /\ orders[o].side = SELL)
               => positions' = positions /\ last'.pos = 0 /\ ~last'.ok]_vars

\* record_fill has just filled up the SELL order that exits the only position
\* of the store, and returned no Position
C15_Witness ==
    /\ last.op = "record_fill" /\ last.pos = 0
    /\ last.id \in OrderIds
    /\ orders[last.id].side = SELL
    /\ orders[last.id].status = FILLED
    /\ Len(positions) = 1
    /\ positions[1].exit_order_id = last.id
    /\ orders[positions[1].entry_order_id].side = BUY

(* C16: an order that became CANCELLED while its submission was in flight
   does not become SUBMITTED or REJECTED afterwards. *)
C16_CancelledInFlightStays ==
    [][\A o \in OrderIds :
         (inflight[o] > 0 /\ orders[o].status = CANCELLED)
         => orders'[o].status \notin {SUBMITTED, REJECTED}]_vars

(* C17: an iteration of the monitor loop that observes a phase other than
   danger_zone, or that runs while auto-exit is disabled, leaves the orders,
   the positions and the awaited broker calls as they are, whether or not it
   logs the exit-deadline warning. *)
C17_OnlyPhaseTrigger ==
    [][\A t \in TaskIds :
         (MonitorIteration(t) /\ (tasks'[t].phase # DANGER_ZONE \/ ~auto_exit_enabled))
         => StoreUnchanged]_vars

\* an iteration has just logged the exit-deadline warning for two open
\* positions, after hours or in the danger zone with auto-exit disabled, and
\* went to sleep
C17_Witness ==
    /\ last.op = "_monitor_loop" /\ last.ok
    /\ last.id \in TaskIds
    /\ tasks[last.id].pc = "sleep" /\ tasks[last.id].warned
    /\ \/ tasks[last.id].phase = AFTER_HOURS
       \/ tasks[last.id].phase = DANGER_ZONE /\ ~auto_exit_enabled
    /\ Cardinality(open_positions) = 2

(* C18: a monitor task ends only when it was cancelled or monitoring was
   switched off: an iteration in which an exception is raised leaves the task
   in its back-off sleep, from which, while monitoring is on, another
   iteration can run.  In a forced-flatten pass, after a close attempt whose
   broker call returned no id or raised, the close attempt for the next
   position of the list that is still open is made in the same step; without
   an executor, where every close attempt returns False, the pass still marks
   every open position closing. *)
C18_LoopSurvives ==
    /\ [][\A t \in TaskIds :
            /\ (tasks[t].pc # "done" /\ tasks'[t].pc = "done")
                  => tasks[t].cancelled \/ ~running
            /\ (MonitorIteration(t) /\ ~last'.ok /\ running)
                  => tasks'[t].pc = "backoff" /\ ~tasks'[t].cancelled
            /\ (MonitorResumed(t) /\ ~last'.ok)
                  => LET list == tasks[t].positions
                         rest == {i \in (tasks[t].idx + 1)..Len(list) :
                                     is_open(positions[list[i]])}
                     IN rest # {}
                        => LET next == list[CHOOSE i \in rest : \A j \in rest : i <= j]
                           IN /\ orders'[tasks[t].awaited].status = REJECTED
                              /\ ExitedBy(next, NewOrders)
                              /\ tasks'[t].pc = "broker"
                              /\ tasks'[t].awaited = positions'[next].exit_order_id
            /\ (InPass(t) /\ ~executor)
                  => \A p \in open_positions : ExitedBy(p, NewOrders)]_vars
    /\ [](\A t \in TaskIds :
            (tasks[t].pc = "backoff" /\ ~tasks[t].cancelled /\ running)
               => ENABLED (\E dt \in Instants : monitor_iteration(t, dt, FALSE)))

\* the broker has just refused the exit order of the first position and the
\* pass is awaiting the broker for the exit order of the second
C18_Witness ==
    /\ last.op = "_execute_auto_exit" /\ ~last.ok
    /\ last.id \in TaskIds
    /\ tasks[last.id].pc = "broker"
    /\ tasks[last.id].positions = <<1, 2>>
    /\ tasks[last.id].idx = 2
    /\ orders[positions[1].exit_order_id].status = REJECTED
    /\ tasks[last.id].awaited = positions[2].exit_order_id
    /\ positions[2].status = CLOSING

\* Monitor tasks that are not cancelled and have not ended
LiveTasks == {t \in TaskIds : tasks[t].pc # "done" /\ ~tasks[t].cancelled}

(* C19: at most one monitor task is live (not cancelled, not ended), and it
   is the one _monitor_task refers to, which is set exactly while monitoring
   is on.  stop_monitoring leaves no task live; a cancelled task takes no
   step but its last, in which it ends without changing an order or a
   position; start_monitoring while monitoring is on changes nothing. *)
C19_OneLiveLoop ==
    /\ [](/\ Cardinality(LiveTasks) <= 1
          /\ LiveTasks \subseteq {monitor_task}
          /\ running <=> monitor_task # 0)
    /\ [][/\ last'.op = "stop_monitoring" => ~running' /\ LiveTasks' = {}
          /\ (last'.op = "start_monitoring" /\ running)
                => UNCHANGED <<orders, positions, inflight, trackerVars>>
          /\ \A t \in TaskIds :
               (tasks[t].cancelled /\ tasks[t].pc # "done")
               => \/ tasks'[t] = tasks[t]
                  \/ /\ tasks'[t].pc = "done"
                     /\ orders' = orders /\ positions' = positions]_vars

\* monitoring was stopped in the middle of a pass and started again: the
\* cancelled task has not yet ended and a second task is live
C19_Witness ==
    /\ last.op = "start_monitoring"
    /\ running
    /\ \E t \in TaskIds :
         /\ tasks[t].cancelled /\ tasks[t].pc = "broker"
         /\ monitor_task # t /\ monitor_task # 0
         /\ tasks[monitor_task].pc = "start"
    /\ open_positions # {}

(* C20: evaluate_order and evaluate_position, whether they return an analysis
   or None, leave every order, every position, the awaited broker calls and
   the tracker as they are; and whatever the advisory calls returned,
   approve_order on a PENDING_APPROVAL order can run and returns True. *)
C20_AdvisoryChangesNothing ==
    /\ [][last'.op \in {"evaluate_order", "evaluate_position"}
            => StoreUnchanged /\ executor' = executor /\ UNCHANGED trackerVars]_vars
    /\ [](\A o \in OrderIds :
            orders[o].status = PENDING_APPROVAL
               => ENABLED (approve_order(o) /\ last'.ok /\ orders'[o].status = APPROVED
                             /\ UNCHANGED trackerVars))

\* evaluate_order has just returned None for a pending order while the store
\* holds an open position
C20_Witness ==
    /\ last.op = "evaluate_order" /\ ~last.ok
    /\ last.id \in OrderIds
    /\ orders[last.id].status = PENDING_APPROVAL
    /\ open_positions # {}

(* C21: close_position_market on an open position with no executor
   configured returns False and calls no broker; it has stored one new SELL
   MARKET exit order for the position's quantity, which is APPROVED, linked it
   as the position's exit_order_id and marked the position closing. *)
C21_NoExecutorReported ==
    [][\A p \in PositionIds :
         (Ran("close_position_market", p) /\ is_open(positions[p]) /\ ~executor)
         => /\ ~last'.ok
            /\ inflight' = inflight
            /\ Len(orders') = Len(orders) + 1
            /\ positions'[p].status = CLOSING
            /\ positions'[p].exit_order_id = Len(orders')
            /\ orders'[Len(orders')] = exit_order(positions[p])
            /\ orders'[Len(orders')].status = APPROVED
            /\ orders'[Len(orders')].side = SELL]_vars

\* close_position_market has just returned False without an executor: the
\* position is closing and its exit order is stored, APPROVED, with no broker
\* call awaited
C21_Witness ==
    /\ ~executor
    /\ last.op = "close_position_market" /\ ~last.ok
    /\ last.id \in PositionIds
    /\ positions[last.id].status = CLOSING
    /\ positions[last.id].exit_order_id \in OrderIds
    /\ orders[positions[last.id].exit_order_id].status = APPROVED
    /\ orders[positions[last.id].exit_order_id].side = SELL
    /\ TotalInflight = 0

---------------------------------------------------------------------------
(* Daily statistics *)

\* the recordings since the last reset that had an exit price
Counted == {i \in DOMAIN daily.recorded : daily.recorded[i].exit_price # NoPrice}

\* exit_price - entry_price of a recording, times the two denominators
Gain(i) ==
    LET p == daily.recorded[i]
    IN  p.exit_price.num * p.entry_price.den - p.entry_price.num * p.exit_price.den

\* twice the sum of (exit_price - entry_price) * quantity * 100 over the first n
\* recordings: every price recorded is a whole or a half
RECURSIVE TwicePnl(_)
TwicePnl(n) ==
    IF n = 0 THEN 0
    ELSE LET p == daily.recorded[n]
         IN  TwicePnl(n - 1)
             + (IF n \in Counted
                THEN ((Gain(n) * 2) \div (p.exit_price.den * p.entry_price.den))
                     * p.quantity * 100
                ELSE 0)

(* C22: after any sequence of record_closed_position and reset_daily_stats
   calls, trades is the number of positions recorded with an exit price since
   the last reset, pnl is the sum of (exit_price - entry_price) * quantity * 100
   over them, wins counts those with pnl > 0, so 0 <= wins <= trades and
   losses = trades - wins >= 0, and win_rate is 0 without trades; recording a
   position without exit price changes no statistic; reset zeroes pnl, trades
   and wins. *)
C22_DailyStatistics ==
    /\ [](/\ daily.trades = Cardinality(Counted)
          /\ daily.pnl.den > 0
          /\ daily.pnl.num * 2 = TwicePnl(Len(daily.recorded)) * daily.pnl.den
          /\ daily.wins = Cardinality({i \in Counted : Gain(i) > 0})
          /\ 0 <= daily.wins /\ daily.wins <= daily.trades
          /\ get_daily_summary.losses = daily.trades - daily.wins
          /\ get_daily_summary.losses >= 0
          /\ (daily.trades = 0 => get_daily_summary.win_rate = Zero))
    /\ [][/\ (/\ last'.op = "record_closed_position"
              /\ daily'.recorded[Len(daily'.recorded)].exit_price = NoPrice)
             => /\ daily'.pnl = daily.pnl
                /\ daily'.trades = daily.trades
                /\ daily'.wins = daily.wins
          /\ last'.op = "reset_daily_stats"
             => /\ daily'.pnl = Zero
                /\ daily'.trades = 0
                /\ daily'.wins = 0]_vars

\* a win, a loss and a position without exit price were recorded after a reset
C22_Witness ==
    /\ last.op = "record_closed_position"
    /\ Len(daily.recorded) = 3
    /\ daily.trades = 2
    /\ daily.wins = 1
    /\ daily.pnl.num < 0
    /\ daily.recorded[3].exit_price = NoPrice

---------------------------------------------------------------------------
(* Session clock *)

\* hh:mm as seconds after midnight
At(hh, mm) == (hh * 60 + mm) * 60

\* the phases of the day in their order, each with the interval [from, to) it covers
PhaseTable ==
    << <<PRE_MARKET,     At(0, 0),   At(9, 30)>>,
       <<PRIME_TIME,     At(9, 30),  At(11, 0)>>,
       <<LUNCH_DOLDRUMS, At(11, 0),  At(13, 30)>>,
       <<MID_SESSION,    At(13, 30), At(15, 30)>>,
       <<DANGER_ZONE,    At(15, 30), At(16, 0)>>,
       <<AFTER_HOURS,    At(16, 0),  At(24, 0)>> >>

PhaseRank(phase) == CHOOSE i \in DOMAIN PhaseTable : PhaseTable[i][1] = phase

\* two readings of the same day, the second at a later instant
LaterReading == clock.op = "read" /\ clock'.op = "read" /\ clock'.now > clock.now

(* C23: get_session_phase maps every time of day to exactly one phase by
   half-open intervals: [00:00,09:30) pre_market, [09:30,11:00) prime_time,
   [11:00,13:30) lunch_doldrums, [13:30,15:30) mid_session, [15:30,16:00)
   danger_zone, [16:00,24:00) after_hours; the instant of a boundary belongs to
   the phase that starts there. *)
C23_HalfOpenPhases ==
    clock.op = "read"
    => \A i \in DOMAIN PhaseTable :
          clock.phase = PhaseTable[i][1]
          <=> (PhaseTable[i][2] <= clock.now /\ clock.now < PhaseTable[i][3])

\* 13:30:00 was read and is mid_session, one second after a reading of lunch_doldrums
C23_Witness ==
    /\ clock.op = "read" /\ clock.now = At(13, 30) /\ clock.phase = MID_SESSION
    /\ clock.before.op = "read" /\ clock.before.now = At(13, 30) - 1

(* C24: session phases never regress within a day: of two readings t1 < t2 the
   phase of t2 is the phase of t1 or a later one in the order pre_market <
   prime_time < lunch_doldrums < mid_session < danger_zone < after_hours; after
   danger_zone only danger_zone or after_hours is read. *)
C24_PhasesNeverRegress ==
    [][LaterReading
       => /\ PhaseRank(clock'.phase) >= PhaseRank(clock.phase)
          /\ clock.phase = DANGER_ZONE => clock'.phase \in {DANGER_ZONE, AFTER_HOURS}]_vars

\* after_hours was read after a reading of danger_zone
C24_Witness ==
    /\ clock.op = "read" /\ clock.phase = AFTER_HOURS
    /\ clock.before.op = "read"
    /\ At(15, 30) <= clock.before.now /\ clock.before.now < At(16, 0)

\* the minutes left in `remaining` seconds, floored; none once the time has passed
FlooredMinutes(minutes, remaining) ==
    IF remaining <= 0 THEN minutes = 0
    ELSE minutes * 60 <= remaining /\ remaining < (minutes + 1) * 60

(* C25: minutes_to_close and minutes_to_exit_deadline are the whole minutes left
   until 16:00 and 15:45, floored; they are never negative, they are 0 at and
   after their boundary, and they do not increase as the time of day advances. *)
C25_MinutesFlooredNonIncreasing ==
    /\ [](clock.op = "read"
          => /\ clock.minutes_to_close >= 0
             /\ clock.minutes_to_exit_deadline >= 0
             /\ FlooredMinutes(clock.minutes_to_close, At(16, 0) - clock.now)
             /\ FlooredMinutes(clock.minutes_to_exit_deadline, At(15, 45) - clock.now))
    /\ [][LaterReading
          => /\ clock'.minutes_to_close <= clock.minutes_to_close
             /\ clock'.minutes_to_exit_deadline <= clock.minutes_to_exit_deadline]_vars

\* 15:43:58 was read: 16 whole minutes to the close and 1 to the exit deadline,
\* fewer than at the reading before
C25_Witness ==
    /\ clock.op = "read" /\ clock.now = At(15, 44) - 2
    /\ clock.minutes_to_close = 16
    /\ clock.minutes_to_exit_deadline = 1
    /\ clock.before.op = "read" /\ clock.before.now < At(15, 30)

---------------------------------------------------------------------------
(* Risk calculator *)

SizeCalled == risk.op = "calculate_position_size"

\* k is the floor of account_size * max_risk_per_trade / max_loss_per_contract
IsFloorOfRisk(k) ==
    LET n == risk.args.account_size * risk.args.max_risk_per_trade.num
             * risk.args.max_loss_per_contract.den
        d == risk.args.max_risk_per_trade.den * risk.args.max_loss_per_contract.num
    IN  k * d <= n /\ n < (k + 1) * d

(* C26: calculate_position_size is always >= 1; for account_size > 0,
   max_risk_per_trade in (0,1] and max_loss_per_contract > 0 it is
   floor(account_size * max_risk_per_trade / max_loss_per_contract) when that
   floor is >= 1 and 1 when the floor is 0; for max_loss_per_contract <= 0 it
   is exactly 1. *)
C26_PositionSize ==
    SizeCalled
    => /\ risk.result >= 1
       /\ (/\ risk.args.account_size > 0
           /\ risk.args.max_risk_per_trade.num > 0
           /\ Leq(risk.args.max_risk_per_trade, Price(1))
           /\ risk.args.max_loss_per_contract.num > 0)
          => \/ risk.result >= 1 /\ IsFloorOfRisk(risk.result)
             \/ risk.result = 1 /\ IsFloorOfRisk(0)
       /\ risk.args.max_loss_per_contract.num <= 0 => risk.result = 1

\* $25,000 at 2% against a loss of $250 a contract gave 2 contracts
C26_Witness ==
    /\ SizeCalled
    /\ risk.args.account_size = 25000
    /\ risk.args.max_risk_per_trade = Div(2, 100)
    /\ risk.args.max_loss_per_contract = Price(250)
    /\ risk.result = 2

ConfidenceCalled == risk.op = "assess_confidence"

(* C27: assess_confidence returns HIGH only when the session is prime_time or
   mid_session and the risk/reward ratio is >= 1.5. *)
C27_HighNeedsSessionAndReward ==
    (ConfidenceCalled /\ risk.result = HIGH)
    => /\ risk.args.session \in {PRIME_TIME, MID_SESSION}
       /\ Leq(Div(3, 2), risk.args.rr_ratio)

WarningsCalled == risk.op = "get_risk_warnings"

\* the place of a warning in the order time, session, R:R, account risk
WarningRank(w) ==
    IF w \in {EXTREME_GAMMA, ELEVATED_GAMMA} THEN 1
    ELSE IF w = LUNCH_WARNING THEN 2
    ELSE IF w = RR_WARNING THEN 3
    ELSE 4

Warned(w) == \E i \in DOMAIN risk.result : risk.result[i] = w

(* C28: get_risk_warnings returns a subsequence of [time warning, session
   warning, R:R warning, account-risk warning] in that order: at most one time
   warning (extreme gamma when minutes_to_close <= 30, otherwise elevated gamma
   when <= 60), the session warning iff the phase is lunch_doldrums, the R:R
   warning iff the ratio is < 1.5, the account-risk warning iff the account
   risk exceeds max_risk_per_trade. *)
C28_WarningsInOrder ==
    WarningsCalled
    => /\ \A i, j \in DOMAIN risk.result :
             i < j => WarningRank(risk.result[i]) < WarningRank(risk.result[j])
       /\ Warned(EXTREME_GAMMA) <=> risk.args.minutes_to_close <= 30
       /\ Warned(ELEVATED_GAMMA)
          <=> (30 < risk.args.minutes_to_close /\ risk.args.minutes_to_close <= 60)
       /\ Warned(LUNCH_WARNING) <=> risk.args.session = LUNCH_DOLDRUMS
       /\ Warned(RR_WARNING)
          <=> risk.args.rr_ratio.num * 2 < 3 * risk.args.rr_ratio.den
       /\ Warned(ACCOUNT_RISK_WARNING)
          <=> risk.args.account_risk_pct.num * risk.args.max_risk_per_trade.den
              > risk.args.max_risk_per_trade.num * risk.args.account_risk_pct.den
       /\ \A i \in DOMAIN risk.result :
             risk.result[i] \in {EXTREME_GAMMA, ELEVATED_GAMMA, LUNCH_WARNING,
                                 RR_WARNING, ACCOUNT_RISK_WARNING}

\* all four warnings were given at once
C28_Witness ==
    /\ WarningsCalled
    /\ risk.result = <<ELEVATED_GAMMA, LUNCH_WARNING, RR_WARNING, ACCOUNT_RISK_WARNING>>

---------------------------------------------------------------------------
(* Views and trade intent *)

(* C29: in every reachable state open_positions is exactly the positions with
   status open, pending_approval exactly the orders in PENDING_APPROVAL,
   active_orders exactly the orders in a non-terminal status, and
   pending_approval is a subset of active_orders; reading the views and
   calling can_open_position leaves the store unchanged. *)
C29_ViewsConsistent ==
    /\ [](/\ open_positions = {p \in PositionIds : positions[p].status = OPEN}
          /\ pending_approval = {o \in OrderIds : orders[o].status = PENDING_APPROVAL}
          /\ active_orders = {o \in OrderIds : orders[o].status \notin TerminalStatus}
          /\ \A o \in OrderIds \ active_orders : orders[o].status \in TerminalStatus
          /\ \A p \in PositionIds \ open_positions : positions[p].status \in {CLOSING, CLOSED}
          /\ pending_approval \subseteq active_orders)
    /\ [][last'.op = "read_views"
          => /\ StoreUnchanged
             /\ executor' = executor
             /\ UNCHANGED <<trackerVars, readingVars>>
             /\ last'.ok = can_open_position]_vars

\* the views were read with an order awaiting approval, a partially filled
\* order and no open position
C29_Witness ==
    /\ last.op = "read_views" /\ last.ok
    /\ pending_approval # {}
    /\ \E o \in active_orders : orders[o].status = PARTIAL_FILL
    /\ open_positions = {}

(* C30: the trade-intent fields of a stored order never change: approve_order,
   reject_order, submit_order and record_fill, and every other step, leave
   side, quantity and order_type of every stored order as they were, and the
   order stays in the store under its id. *)
C30_TradeIntentFrozen ==
    [][\A o \in OrderIds :
         /\ o \in DOMAIN orders'
         /\ orders'[o].side = orders[o].side
         /\ orders'[o].quantity = orders[o].quantity
         /\ orders'[o].order_type = orders[o].order_type]_vars

\* an order went through approval, submission and two fills to FILLED
C30_Witness ==
    \E o \in OrderIds :
       /\ orders[o].status = FILLED
       /\ orders[o].broker_order_id # None
       /\ Len(orders[o].fills) >= 2
       /\ orders[o].filled_quantity = orders[o].quantity
       /\ orders[o].side = BUY /\ orders[o].order_type = LIMIT

---------------------------------------------------------------------------
(* Fills *)

\* the contracts, and the cost, of the first n fills of a fill list
RECURSIVE FilledContracts(_, _)
FilledContracts(fills, n) ==
    IF n = 0 THEN 0 ELSE FilledContracts(fills, n - 1) + fills[n].quantity

RECURSIVE FilledCost(_, _)
FilledCost(fills, n) ==
    IF n = 0 THEN 0 ELSE FilledCost(fills, n - 1) + fills[n].price * fills[n].quantity

(* C31: fills are append-only and the aggregates follow them: a record_fill
   on a stored order appends exactly one fill to its list, no step removes
   or alters a recorded fill, and in every reachable state filled_quantity is
   the sum of the quantities of the recorded fills and avg_fill_price times
   that sum is the sum of price * quantity over them. *)
C31_FillsAppendOnly ==
    /\ [](\A o \in OrderIds :
            LET fills == orders[o].fills
                contracts == FilledContracts(fills, Len(fills))
            IN  /\ orders[o].filled_quantity = contracts
                /\ IF fills = <<>> THEN orders[o].avg_fill_price = NoPrice
                   ELSE /\ orders[o].avg_fill_price.den > 0
                        /\ orders[o].avg_fill_price.num * contracts
                           = FilledCost(fills, Len(fills)) * orders[o].avg_fill_price.den)
    /\ [][\A o \in OrderIds :
            /\ Len(orders'[o].fills) >= Len(orders[o].fills)
            /\ SubSeq(orders'[o].fills, 1, Len(orders[o].fills)) = orders[o].fills
            /\ Ran("record_fill", o) => Len(orders'[o].fills) = Len(orders[o].fills) + 1
            /\ ~Ran("record_fill", o) => orders'[o].fills = orders[o].fills]_vars

\* an order holds a fill at 1 and a fill at 2: its average price is 3/2
C31_Witness ==
    \E o \in OrderIds :
       /\ Len(orders[o].fills) = 2
       /\ orders[o].fills[1].price = 1 /\ orders[o].fills[2].price = 2
       /\ orders[o].fills[1].quantity = 1 /\ orders[o].fills[2].quantity = 1
       /\ orders[o].avg_fill_price = Div(3, 2)
       /\ orders[o].filled_quantity = 2

---------------------------------------------------------------------------
(* The max-positions gate *)

\* Every fill went to an order the broker had accepted, no order is filled
\* beyond its quantity and no order has two positions
FilledAsSubmitted ==
    /\ \A o \in OrderIds :
          /\ orders[o].fills # <<>> => orders[o].broker_order_id # None
          /\ orders[o].filled_quantity <= orders[o].quantity
    /\ \A p, q \in PositionIds :
          positions[p].entry_order_id = positions[q].entry_order_id => p = q

(* C32: the max-positions gate bounds exposure: in every state reached by
   create_order_from_suggestion, approve_order, submit_order and record_fill
   calls, with every fill made on a submitted order and within its quantity,
   at most max_positions positions are open. *)
C32_OpenWithinMax ==
    FilledAsSubmitted => Cardinality(open_positions) <= max_positions

---------------------------------------------------------------------------
(* Concurrent submissions *)

\* the step invokes the broker's submit for order o
BrokerInvoked(o) ==
    /\ last'.op = "executor.submit_order" /\ last'.id = o
    /\ inflight'[o] = inflight[o] + 1

\* the broker's submit was invoked for order o before: a call is suspended
\* at it, or it has answered
InvokedBefore(o) ==
    \/ inflight[o] > 0
    \/ orders[o].broker_order_id # None
    \/ orders[o].status_reason \in {"Broker rejected", BrokerError}

(* C33: the broker's submit is invoked at most once over an order's life,
   under any interleaving of concurrent submit_order calls for the same order
   id: no step invokes it for an order for which it was invoked before. *)
C33_BrokerInvokedOnce ==
    [][\A o \in OrderIds : BrokerInvoked(o) => ~InvokedBefore(o)]_vars

---------------------------------------------------------------------------
(* Submission without an executor *)

(* C36: submit_order on an APPROVED order without an executor configured
   returns False, calls no broker and leaves the order REJECTED with reason
   "No executor"; no later submit_order on that order succeeds or reaches a
   broker. *)
C36_NoExecutorRejects ==
    [][\A o \in OrderIds :
         /\ (Ran("submit_order", o) /\ orders[o].status = APPROVED /\ ~executor)
            => /\ ~last'.ok
               /\ inflight' = inflight
               /\ orders'[o].status = REJECTED
               /\ orders'[o].status_reason = "No executor"
               /\ orders'[o].broker_order_id = None
         /\ (orders[o].status = REJECTED /\ orders[o].status_reason = "No executor")
            => /\ ~(Ran("submit_order", o) /\ last'.ok)
               /\ ~BrokerInvoked(o)
               /\ orders'[o].status # APPROVED]_vars

\* an APPROVED order was submitted without an executor and is REJECTED
C36_Witness ==
    /\ ~executor
    /\ last.op = "submit_order" /\ ~last.ok
    /\ last.id \in OrderIds
    /\ orders[last.id].status = REJECTED
    /\ orders[last.id].status_reason = "No executor"
    /\ TotalInflight = 0

---------------------------------------------------------------------------
(* Exit orders of a position *)

\* The SELL orders of the store
ExitOrders == {o \in OrderIds : orders[o].side = SELL}

\* The positions whose exit_order_id is order o
LinkedTo(o) == {p \in PositionIds : positions[p].exit_order_id = o}

(* C34: over every interleaving of monitor passes, manual
   close_position_market requests and broker completions, a position gets at
   most one exit order: every SELL order of the store is the exit order of
   exactly one position, and a position's exit_order_id, once set, is never
   replaced, so no second SELL order is ever created for it. *)
C34_OneExitPerPosition ==
    /\ [](\A o \in ExitOrders : Cardinality(LinkedTo(o)) = 1)
    /\ [](Cardinality(ExitOrders) <= Len(positions))
    /\ [][\A p \in PositionIds :
            positions[p].exit_order_id # 0
            => /\ positions'[p].exit_order_id = positions[p].exit_order_id
               /\ positions'[p].exit_order_id \notin NewOrders]_vars

\* a manual close of a position arrived while a forced-flatten pass awaits
\* the broker for that position's exit order, and returned False
C34_Witness ==
    /\ executor
    /\ last.op = "close_position_market" /\ ~last.ok
    /\ last.id \in PositionIds
    /\ \E t \in TaskIds :
         /\ tasks[t].pc = "broker"
         /\ tasks[t].awaited = positions[last.id].exit_order_id
    /\ Cardinality(ExitOrders) = 1

---------------------------------------------------------------------------
(* Exit-link integrity *)

\* Position p is linked to a stored SELL MARKET order for its option code and
\* its full quantity
ExitLinked(p) ==
    /\ positions[p].exit_order_id \in OrderIds
    /\ LET order == orders[positions[p].exit_order_id] IN
         /\ order.side = SELL
         /\ order.order_type = MARKET
         /\ order.option_code = positions[p].option_code
         /\ order.quantity = positions[p].quantity

(* C37: every closing position is linked to a stored order with side SELL,
   type MARKET, the position's option code and the position's quantity, and
   no two positions have the same exit order. *)
C37_ExitLinkIntegrity ==
    /\ \A p \in PositionIds : positions[p].status = CLOSING => ExitLinked(p)
    /\ \A p, q \in PositionIds :
         (p # q /\ positions[p].exit_order_id # 0)
         => positions[p].exit_order_id # positions[q].exit_order_id

\* two closing positions that hold different contracts in different quantities
C37_Witness ==
    \E p, q \in PositionIds :
       /\ positions[p].status = CLOSING /\ positions[q].status = CLOSING
       /\ positions[p].option_code # positions[q].option_code
       /\ positions[p].quantity # positions[q].quantity
       /\ orders[positions[q].exit_order_id].status = SUBMITTED
---------------------------------------------------------------------------
(* A suggestion sized up to one contract *)

Suggested == risk.op = "_build_long_option_suggestion"

\* floor(account_size * max_risk_per_trade / max_loss_per_contract) is 0
FloorOfRiskIsZero ==
    LET n == risk.args.account_size * risk.args.max_risk_per_trade.num
             * risk.args.max_loss_per_contract.den
        d == risk.args.max_risk_per_trade.den * risk.args.max_loss_per_contract.num
    IN  d > 0 /\ 0 <= n /\ n < d

(* C38: whenever the quantity of a suggestion is 1 because
   floor(account_size * max_risk_per_trade / max_loss_per_contract) is 0, the
   account risk computed for it exceeds max_risk_per_trade and its warnings
   contain the account-risk warning. *)
C38_ClampedSizeWarns ==
    (Suggested /\ FloorOfRiskIsZero)
    => /\ risk.result.quantity = 1
       /\ ~Leq(risk.result.account_risk_pct, risk.args.max_risk_per_trade)
       /\ \E i \in DOMAIN risk.result.warnings :
             risk.result.warnings[i] = ACCOUNT_RISK_WARNING
---------------------------------------------------------------------------
(* Forced exit in time *)

\* one poll interval after the danger zone began
FirstPollDue == parse_time(danger_zone_start) + PollSeconds

(* C35: with the monitor running and auto-exit enabled, every position that
   is open when the danger zone begins leaves status open within one poll
   interval of that moment, which is before the exit deadline: no position
   is open later than that, and no position leaves open later than that. *)
C35_FlattenedWithinPoll ==
    /\ [](clock.now > FirstPollDue => open_positions = {})
    /\ [][\A p \in PositionIds :
            (is_open(positions[p]) /\ ~is_open(positions'[p]))
            => /\ clock'.now <= FirstPollDue
               /\ clock'.now < parse_time(exit_deadline)]_vars
====
